---------------------------- MODULE Spec2Model ----------------------------
(***************************************************************************)
(* A model of the FALSE -> LLVM IR compiler: the Tokenizer                 *)
(* (tokenizer.ts), the Parser (parser.ts), the Compiler (compiler.ts) and  *)
(* the command line entry point (false.ts).                                *)
(*                                                                         *)
(* Text is modelled as JavaScript holds it: a string is a sequence of      *)
(* UTF-16 code units (integers).  A Number is modelled by what the         *)
(* template literal prints for it: for an integer below 10^21 a numeral,   *)
(* its sequence of decimal digits (values 0..9) without leading zeros; for *)
(* a greater one the exponential form; else Infinity.  Characters that are *)
(* no digits are code units.  parseInt rounds a digit run to the nearest   *)
(* IEEE 754 binary64 value, which is exact up to 2^53.                     *)
(***************************************************************************)
EXTENDS Integers, Sequences, FiniteSets, TLC

VARIABLES
    source,     \* Tokenizer.#source: the text handed to the Tokenizer or to parse()
    pos,        \* Tokenizer.#pos
    pulls,      \* number of Tokenizer.next() calls made so far
    last,       \* outcome of the latest Tokenizer.next() call
    parsed,     \* outcome of the latest parse() call
    program,    \* the AST handed to the latest compile() call
    compiler,   \* fields of the latest Compiler instance
    output,     \* what the latest compile() call returned
    first,      \* AST and output of the first compile() call of the process
    phase,      \* how many compile() calls the process has made
    argv,       \* process.argv[2] and process.argv[3]
    pc,         \* where main() of false.ts stands
    outFile,    \* the output path main() computed
    written,    \* the files main() wrote: a set of [path, data]
    stack,          \* the buffer @stack points to: its cells
    stack_size,     \* @stack_size
    stack_capacity, \* @stack_capacity
    did,        \* the latest call of a function of the runtime
    frames,     \* the functions of the module being executed, innermost last
    status,     \* where the execution of the module stands
    calls,      \* how often execution entered each function and read a character
    variables   \* what was stored to the globals @var_a .. @var_z

vars == <<source, pos, pulls, last, parsed, program, compiler, output, first,
          phase, argv, pc, outFile, written, stack, stack_size,
          stack_capacity, did, frames, status, calls, variables>>

(***************************************************************************)
(* Characters                                                              *)
(***************************************************************************)

\* The printable ASCII characters, code units 32..126, in order (the grave
\* accent, code unit 96, is written GRAVE).
Ascii ==
    << " ", "!", "\"", "#", "$", "%", "&", "'", "(", ")", "*", "+", ",", "-",
       ".", "/", "0", "1", "2", "3", "4", "5", "6", "7", "8", "9", ":", ";",
       "<", "=", ">", "?", "@", "A", "B", "C", "D", "E", "F", "G", "H", "I",
       "J", "K", "L", "M", "N", "O", "P", "Q", "R", "S", "T", "U", "V", "W",
       "X", "Y", "Z", "[", "\\", "]", "^", "_", "GRAVE", "a", "b", "c", "d",
       "e",
       "f", "g", "h", "i", "j", "k", "l", "m", "n", "o", "p", "q", "r", "s",
       "t", "u", "v", "w", "x", "y", "z", "{", "|", "}", "~" >>

\* The code unit of a printable ASCII character.
Ch(c) == 31 + CHOOSE i \in 1..Len(Ascii) : Ascii[i] = c

\* The code units of a text written as a tuple of characters.
Str(cs) == [i \in 1..Len(cs) |-> Ch(cs[i])]

chOpenBrace == Ch("{")
chCloseBrace == Ch("}")
chQuote == Ch("'")
chDoubleQuote == Ch("\"")
chZero == Ch("0")
chNine == Ch("9")
chLowerA == Ch("a")
chLowerZ == Ch("z")
chDot == Ch(".")

\* The characters /\s/ matches.
WhiteSpace ==
    {9, 10, 11, 12, 13, 32, 160, 5760, 8232, 8233, 8239, 8287, 12288, 65279}
        \cup (8192..8202)

\* The characters the dot of a regular expression does not match.
LineTerminators == {10, 13, 8232, 8233}

(***************************************************************************)
(* Numerals                                                                *)
(***************************************************************************)

RECURSIVE ToNumeral(_)
\* The decimal digits of a natural number: Number.prototype.toString.
ToNumeral(n) ==
    IF n < 10 THEN <<n>> ELSE Append(ToNumeral(n \div 10), n % 10)

RECURSIVE StripZeros(_)
\* A digit run without its leading zeros (a run of zeros is <<0>>).
StripZeros(ds) ==
    IF Len(ds) > 1 /\ ds[1] = 0 THEN StripZeros(Tail(ds)) ELSE ds

\* a < b for two numerals, and for two digit sequences of the same length.
NumeralLess(a, b) ==
    IF Len(a) # Len(b) THEN Len(a) < Len(b)
    ELSE \E i \in 1..Len(a) :
            /\ a[i] < b[i]
            /\ \A j \in 1..(i - 1) : a[j] = b[j]

\* 2^31 - 1, the largest value of an i32.
Int32Max == <<2, 1, 4, 7, 4, 8, 3, 6, 4, 7>>

\* What is printed for the Number is a numeral, and it is the value of
\* some i32.
InInt32Range(v) ==
    /\ \A i \in 1..Len(v) : v[i] \in 0..9
    /\ ~ NumeralLess(Int32Max, v)

\* A numeral divided by two: the quotient q and the remainder r.  The
\* remainder a digit hands to the next one is 1 when the digit is odd.
Half(ds) ==
    [q |-> StripZeros(<<>> \o [i \in 1..Len(ds) |->
                                  (IF i > 1 /\ ds[i - 1] % 2 = 1
                                   THEN 10 + ds[i] ELSE ds[i]) \div 2]),
     r |-> ds[Len(ds)] % 2]

\* Twice a digit sequence, without the carry out of its first digit: a
\* digit hands a carry to the one before when it is 5 or more.
TwiceDigits(ds) ==
    <<>> \o [i \in 1..Len(ds) |->
               (2 * ds[i] + (IF i < Len(ds) /\ ds[i + 1] >= 5 THEN 1 ELSE 0))
                  % 10]

\* A numeral times two.
Double(ds) == IF ds[1] >= 5 THEN <<1>> \o TwiceDigits(ds) ELSE TwiceDigits(ds)

RECURSIVE SuccFrom(_, _, _)
\* A numeral plus one, from its digit i down.
SuccFrom(ds, i, out) ==
    IF i = 0 THEN <<1>> \o out
    ELSE IF ds[i] = 9 THEN SuccFrom(ds, i - 1, <<0>> \o out)
    ELSE SubSeq(ds, 1, i - 1) \o <<ds[i] + 1>> \o out

\* 2^53 and 2^52: a binary64 value has a significand of 53 bits.
TwoTo53 == <<9, 0, 0, 7, 1, 9, 9, 2, 5, 4, 7, 4, 0, 9, 9, 2>>
TwoTo52 == <<4, 5, 0, 3, 5, 9, 9, 6, 2, 7, 3, 7, 0, 4, 9, 6>>

\* The binary64 value m * 2^e, m below 2^53.  An exponent above 971 stands
\* for Infinity.
Binary64(m, e) == [m |-> m, e |-> e]
IsFinite(f) == f.e <= 971
PositiveInfinity == Binary64(TwoTo52, 972)

\* The integer m * 2^e and what was shifted out of it: guard is the bit
\* shifted out last, sticky 1 when a bit shifted out before was 1.
Shifting(m, e, guard, sticky) ==
    [m |-> m, e |-> e, guard |-> guard, sticky |-> sticky]

\* One more bit shifted out, h the half of the significand.
ShiftedBy(s, h) ==
    Shifting(h.q, s.e + 1, h.r, IF s.guard = 1 THEN 1 ELSE s.sticky)

\* One bit shifted out of a significand of more than 53 bits.
ShiftedOnce(s) ==
    IF NumeralLess(s.m, TwoTo53) THEN s ELSE ShiftedBy(s, Half(s.m))

RECURSIVE Shifted(_, _)
\* n more times ShiftedOnce.
ShiftedOn(s, n) == IF s.e < 0 THEN s ELSE Shifted(s, n)

\* n times ShiftedOnce.
Shifted(s, n) ==
    IF n = 0 THEN s
    ELSE IF n = 1 THEN ShiftedOnce(s)
    ELSE ShiftedOn(Shifted(s, n \div 2), n - n \div 2)

\* The significand after a carry into its 54th bit.
Normal(m, e) == IF m = TwoTo53 THEN Binary64(TwoTo52, e + 1) ELSE Binary64(m, e)

\* Round to nearest, ties to even.
RoundHalfEven(s) ==
    IF s.guard = 1 /\ (s.sticky = 1 \/ s.m[Len(s.m)] % 2 = 1)
    THEN Normal(SuccFrom(s.m, Len(s.m), <<>>), s.e)
    ELSE Binary64(s.m, s.e)

\* The Number value of a numeral: the nearest binary64 value.  A numeral of
\* more than 309 digits is above every finite one; one of n digits has less
\* than 4 * n bits.
ToBinary64(ds) ==
    IF Len(ds) > 309 THEN PositiveInfinity
    ELSE RoundHalfEven(Shifted(Shifting(ds, 0, 0, 0), 4 * Len(ds)))

RECURSIVE Scale(_, _)
\* The numeral of m * 2^e, m not empty.
ScaleOn(m, e) == IF m = <<>> THEN m ELSE Scale(m, e)

\* The numeral of m * 2^e.
Scale(m, e) ==
    IF e = 0 THEN m
    ELSE IF e = 1 THEN Double(m)
    ELSE ScaleOn(Scale(m, e \div 2), e - e \div 2)

Zeros(n) == [i \in 1..n |-> 0]

\* The numeral d cut to k significant digits, rounded down and rounded up.
CutDown(d, k) == SubSeq(d, 1, k) \o Zeros(Len(d) - k)
CutUp(d, k) == SuccFrom(SubSeq(d, 1, k), k, <<>>) \o Zeros(Len(d) - k)

\* Of the two, the one nearer to d, the one of even last digit in a tie.
CutNearest(d, k) ==
    IF NumeralLess(SubSeq(d, k + 1, Len(d)), <<5>> \o Zeros(Len(d) - k - 1))
    THEN CutDown(d, k)
    ELSE IF NumeralLess(<<5>> \o Zeros(Len(d) - k - 1), SubSeq(d, k + 1, Len(d)))
    THEN CutUp(d, k)
    ELSE IF d[k] % 2 = 0 THEN CutDown(d, k) ELSE CutUp(d, k)

RECURSIVE Shortest(_, _, _)
\* down and up tell whether d cut to k digits, rounded down and up, is a
\* numeral of the Number f.
ShortestOf(d, k, f, down, up) ==
    IF down /\ up THEN CutNearest(d, k)
    ELSE IF down THEN CutDown(d, k)
    ELSE IF up THEN CutUp(d, k)
    ELSE Shortest(d, k + 1, f)

\* Number::toString: the numeral of the fewest significant digits, k or
\* more, whose Number value is f, d being the numeral of the exact value
\* of f.
Shortest(d, k, f) ==
    IF k >= Len(d) THEN d
    ELSE ShortestOf(d, k, f, ToBinary64(CutDown(d, k)) = f,
                    ToBinary64(CutUp(d, k)) = f)

\* A numeral other than 0 without the zeros at its end.
StripTrailingZeros(ds) ==
    SubSeq(ds, 1, CHOOSE i \in 1..Len(ds) :
                     /\ ds[i] # 0
                     /\ \A j \in (i + 1)..Len(ds) : ds[j] = 0)

\* The digits s of a Number of n + 1 digits in the exponential form.
Exponential(s, n) ==
    <<s[1]>> \o (IF Len(s) > 1 THEN <<chDot>> \o Tail(s) ELSE <<>>)
        \o <<Ch("e"), Ch("+")>> \o ToNumeral(n)

\* Number::toString of an integer of the numeral c: the digits up to 21 of
\* them, the exponential form from 10^21 on.
Printed(c) ==
    IF Len(c) <= 21 THEN c ELSE Exponential(StripTrailingZeros(c), Len(c) - 1)

\* Number::toString of a Number.
NumberToString(f) ==
    IF IsFinite(f) THEN Printed(Shortest(Scale(f.m, f.e), 1, f))
    ELSE Str(<<"I", "n", "f", "i", "n", "i", "t", "y">>)

\* The Number of a numeral: an integer below 2^53 is its own Number value.
NumberOf(ds) ==
    IF NumeralLess(ds, TwoTo53) THEN ds ELSE NumberToString(ToBinary64(ds))

\* parseInt of a non-empty run of decimal digits.
parseInt(digits) ==
    NumberOf(StripZeros([i \in 1..Len(digits) |-> digits[i] - chZero]))

(***************************************************************************)
(* Tokenizer (tokenizer.ts)                                                *)
(***************************************************************************)

\* What reading past the end of a string yields.
Undefined == -1

\* The payload of a token or AST node that carries none.
NoValue == "undefined"

\* An Error: its message and the character it names (Undefined: none).
Error(msg, arg) == [msg |-> msg, arg |-> arg]

NoError == Error("", Undefined)

Token(type, value) == [type |-> type, value |-> value]

\* Tokenizer.symbols
symbols ==
    (Ch("[") :> "OpenBracket") @@ (Ch("]") :> "CloseBracket") @@
    (Ch(";") :> "GetVar") @@ (Ch(":") :> "SetVar") @@
    (Ch("$") :> "Dup") @@ (Ch("%") :> "Discard") @@
    (Ch("\\") :> "Swap") @@ (Ch("@") :> "Rotate") @@
    (Ch("O") :> "Take") @@ (Ch("+") :> "Plus") @@
    (Ch("-") :> "Minus") @@ (Ch("*") :> "Mul") @@
    (Ch("/") :> "Div") @@ (Ch("_") :> "Negate") @@
    (Ch("&") :> "BitAnd") @@ (Ch("|") :> "BitOr") @@
    (Ch("~") :> "BitInvert") @@ (Ch("=") :> "Equal") @@
    (Ch(">") :> "GreaterThan") @@ (Ch("!") :> "Execute") @@
    (Ch("?") :> "ExecuteIf") @@ (Ch("#") :> "While") @@
    (Ch("^") :> "Getc") @@ (Ch(",") :> "Putc") @@
    (Ch(".") :> "PrintInt") @@ (Ch("B") :> "Flush") @@
    (Ch("GRAVE") :> "Asm")

\* get #currentChar
currentChar(src, p) == IF p < Len(src) THEN src[p + 1] ELSE Undefined

\* String.prototype.substring(start, end)
substring(src, start, end) == SubSeq(src, start + 1, end)

\* this.#currentToken = null, and the token of a call that returns none.
NoToken == Token("null", NoValue)

\* The outcome of a Tokenizer method: the position it leaves, the token it
\* returns (NoToken: none) and the error it throws (NoError: none).
Lexed(p, tok, err) == [pos |-> p, tok |-> tok, err |-> err]

\* #eat(char, errorMessage): the position after it, and the error thrown.
eat(src, p, char, errorMessage) ==
    IF currentChar(src, p) = char
    THEN Lexed(p + 1, NoToken, NoError)
    ELSE Lexed(p, NoToken, errorMessage)

RECURSIVE ScanUntil(_, _, _)
\* while (pos < source.length && currentChar !== char) ++pos
ScanUntil(src, p, char) ==
    IF p < Len(src) /\ currentChar(src, p) # char
    THEN ScanUntil(src, p + 1, char)
    ELSE p

\* '0' <= currentChar && currentChar <= '9'
DigitAt(src, p) ==
    chZero <= currentChar(src, p) /\ currentChar(src, p) <= chNine

\* while ('0' <= currentChar && currentChar <= '9') ++pos: the first
\* position from p on that holds no digit.
ScanDigits(src, p) ==
    IF ~ DigitAt(src, p) THEN p
    ELSE CHOOSE e \in (p + 1)..Len(src) :
            /\ ~ DigitAt(src, e)
            /\ \A i \in p..(e - 1) : DigitAt(src, i)

\* #nextVariable() without its ++this.#pos.
nextVariableInPlace(src, p) ==
    Lexed(p, Token("Variable", currentChar(src, p)), NoError)

\* #nextVariable()
nextVariable(src, p) ==
    Lexed(p + 1, Token("Variable", currentChar(src, p)), NoError)

\* #skipComment()
skipComment(src, p) ==
    eat(src, ScanUntil(src, p, chCloseBrace), chCloseBrace,
        Error("Unclosed comment", Undefined))

\* #nextNumber()
nextNumber(src, p) ==
    LET end == ScanDigits(src, p)
    IN  Lexed(end, Token("Integer", parseInt(substring(src, p, end))), NoError)

\* #nextChar()
nextChar(src, p) ==
    LET e == eat(src, p, chQuote, Error("Expected ', got", currentChar(src, p)))
    IN  IF e.err # NoError THEN e
        ELSE IF currentChar(src, e.pos) # Undefined
        THEN Lexed(e.pos + 1,
                   Token("Integer", ToNumeral(currentChar(src, e.pos))),
                   NoError)
        ELSE Lexed(e.pos, NoToken, Error("Expected a character", Undefined))

\* #nextString()
nextString(src, p) ==
    LET open == eat(src, p, chDoubleQuote,
                    Error("Expected \", got", currentChar(src, p)))
        end == ScanUntil(src, open.pos, chDoubleQuote)
        close == eat(src, end, chDoubleQuote,
                     Error("Expected \", got", currentChar(src, end)))
    IN  IF open.err # NoError THEN open
        ELSE IF close.err # NoError THEN close
        ELSE Lexed(close.pos,
                   Token("String", substring(src, open.pos, end)), NoError)

RECURSIVE Tokenizer_next(_, _)
\* Tokenizer.next(): a token, done (no token and no error) or an error.
Tokenizer_next(src, p) ==
    IF ~ (p < Len(src)) THEN Lexed(p, NoToken, NoError)
    ELSE LET c == currentChar(src, p) IN
         IF c \in WhiteSpace THEN Tokenizer_next(src, p + 1)
         ELSE IF c = chOpenBrace
         THEN LET s == skipComment(src, p)
              IN  IF s.err # NoError THEN s ELSE Tokenizer_next(src, s.pos)
         ELSE IF c = chQuote THEN nextChar(src, p)
         ELSE IF c = chDoubleQuote THEN nextString(src, p)
         ELSE IF chZero <= c /\ c <= chNine THEN nextNumber(src, p)
         ELSE IF chLowerA <= c /\ c <= chLowerZ THEN nextVariable(src, p)
         ELSE IF c \in DOMAIN symbols
         THEN Lexed(p + 1, Token(symbols[c], NoValue), NoError)
         ELSE Lexed(p, NoToken, Error("Invalid character", c))

(***************************************************************************)
(* Parser (parser.ts)                                                      *)
(***************************************************************************)

AstNode(type, value) == [type |-> type, value |-> value]

\* The token kinds parseStatements turns into an AST node of the same name.
InstrTokens ==
    {"Variable", "String", "Integer", "GetVar", "SetVar", "Dup", "Discard",
     "Swap", "Rotate", "Take", "Plus", "Minus", "Mul", "Div", "Negate",
     "BitAnd", "BitOr", "BitInvert", "Equal", "GreaterThan", "Execute",
     "ExecuteIf", "While", "Getc", "Putc", "PrintInt"}

\* The state of a Parser and what a method of it returned or threw.
Parsing(p, cur, stmts, err) ==
    [pos |-> p, cur |-> cur, statements |-> stmts, err |-> err]

\* this.#currentToken = done ? null : value
CurrentToken(r) == Parsing(r.pos, r.tok, <<>>, r.err)

\* Parser.#next(): done leaves #currentToken null.
Parser_next(src, p) == CurrentToken(Tokenizer_next(src, p))

RECURSIVE parseStatements(_, _, _, _)

\* The loop of parseStatements goes on after a #next() call, whose outcome
\* is n, unless that call threw.
Continue(src, n, statements) ==
    IF n.err # NoError THEN n
    ELSE parseStatements(src, n.pos, n.cur, statements)

\* instr(type, value): statements.push({ type, value }); _this.#next()
instr(src, p, statements, type, value) ==
    Continue(src, Parser_next(src, p), Append(statements, AstNode(type, value)))

\* case TokenType.OpenBracket, after this.#next() and the inner
\* this.parseStatements(), whose outcome is inner.
instrQuote(src, statements, inner) ==
    IF inner.err # NoError THEN inner
    ELSE instr(src, inner.pos, statements, "Quote", inner.statements)

\* case TokenType.Asm, after the this.#next() that follows the token read
\* as an Integer, whose outcome is m.
AsmInteger(m) ==
    IF m.err # NoError THEN m
    ELSE Parsing(m.pos, m.cur, <<>>,
                 Error("Assembly is not supported", Undefined))

\* case TokenType.Asm, after its first this.#next(), whose outcome is n.
\* Reading the type of a null #currentToken throws a TypeError.
Asm(src, n) ==
    IF n.err # NoError THEN n
    ELSE IF n.cur = NoToken
    THEN Parsing(n.pos, n.cur, <<>>,
                 Error("TypeError: Cannot read properties of null", Undefined))
    ELSE IF n.cur.type = "Integer" THEN AsmInteger(Parser_next(src, n.pos))
    ELSE Parsing(n.pos, n.cur, <<>>,
                 Error("Syntax error: Expected a short", Undefined))

\* Parser.parseStatements(), from the head of its loop with the statements
\* collected so far.
parseStatements(src, p, cur, statements) ==
    IF cur = NoToken THEN Parsing(p, cur, statements, NoError)
    ELSE IF cur.type \in InstrTokens
    THEN instr(src, p, statements, cur.type, cur.value)
    ELSE IF cur.type = "OpenBracket"
    THEN instrQuote(src, statements, Continue(src, Parser_next(src, p), <<>>))
    ELSE IF cur.type = "CloseBracket"
    THEN Parsing(p, cur, statements, NoError)
    ELSE IF cur.type = "Flush"
    THEN Continue(src, Parser_next(src, p), statements)
    ELSE Asm(src, Parser_next(src, p))

\* parse(source): new Tokenizer, new Parser (whose constructor pulls the
\* first token), parseStatements().
parse(src) == Continue(src, Parser_next(src, 0), <<>>)

(***************************************************************************)
(* Compiler (compiler.ts)                                                  *)
(***************************************************************************)

\* One hexadecimal byte as toString(16) prints it, padded to two digits.
Hex(code) == <<code \div 16, code % 16>>

IsHighSurrogate(u) == 55296 <= u /\ u <= 56319
IsLowSurrogate(u) == 56320 <= u /\ u <= 57343

\* The UTF-8 bytes of the code point cp.
Utf8(cp) ==
    IF cp < 128 THEN <<cp>>
    ELSE IF cp < 2048 THEN <<192 + (cp \div 64), 128 + (cp % 64)>>
    ELSE IF cp < 65536
    THEN <<224 + (cp \div 4096), 128 + ((cp \div 64) % 64), 128 + (cp % 64)>>
    ELSE <<240 + (cp \div 262144), 128 + ((cp \div 4096) % 64),
           128 + ((cp \div 64) % 64), 128 + (cp % 64)>>

RECURSIVE TextEncoder_encode(_)
\* new TextEncoder().encode(str): a surrogate pair is one code point, a lone
\* surrogate is encoded as U+FFFD.
TextEncoder_encode(str) ==
    IF str = <<>> THEN <<>>
    ELSE IF IsHighSurrogate(str[1]) /\ Len(str) > 1 /\ IsLowSurrogate(str[2])
    THEN Utf8(65536 + (str[1] - 55296) * 1024 + (str[2] - 56320))
            \o TextEncoder_encode(Tail(Tail(str)))
    ELSE IF IsHighSurrogate(str[1]) \/ IsLowSurrogate(str[1])
    THEN Utf8(65533) \o TextEncoder_encode(Tail(str))
    ELSE Utf8(str[1]) \o TextEncoder_encode(Tail(str))

\* encode_string with the length of the string, in code units, for that of
\* its encoding.
encode_string_length(str) ==
    [len |-> Len(str) + 1,
     enc |-> [i \in 1..Len(TextEncoder_encode(str)) |->
                 Hex(TextEncoder_encode(str)[i])] \o <<Hex(0)>>]

\* encode_string(str): [enc.length + 1, enc_str + '\\00'], the escapes as
\* pairs of hexadecimal digits.
encode_string(str) ==
    LET enc == TextEncoder_encode(str)
    IN  [len |-> Len(enc) + 1,
         enc |-> [i \in 1..Len(enc) |-> Hex(enc[i])] \o <<Hex(0)>>]

RECURSIVE astEqual(_, _, _)
\* astEqual(a, b) for two payloads of nodes of the same type: arrays when
\* the type is Quote, compared with === otherwise.  The loop returns in its
\* first iteration.
astEqual(type, a, b) ==
    IF type # "Quote" THEN a = b
    ELSE IF Len(a) # Len(b) THEN FALSE
    ELSE IF Len(a) = 0 THEN TRUE
    ELSE IF a[1].type # b[1].type THEN FALSE
    ELSE astEqual(a[1].type, a[1].value, b[1].value)

\* The state of a TemporaryGenerator: #id.
NewTemporaryGenerator == 1

\* next() without the increment of #id.
TemporaryGenerator_peek(id) == [value |-> id, id |-> id]

\* TemporaryGenerator.next(): the id the name is made of, and #id after it.
TemporaryGenerator_next(id) == [value |-> id, id |-> id + 1]

RECURSIVE Fresh(_, _, _)

\* The rest of n calls of next() after one that returned g.
FreshAfter(g, n, values) == Fresh(g.id, n - 1, Append(values, g.value))

\* n calls of next() in a row: the names they return, after those in values,
\* and #id after them.
Fresh(id, n, values) ==
    IF n = 0 THEN [values |-> values, id |-> id]
    ELSE FreshAfter(TemporaryGenerator_next(id), n, values)

\* Operands of an instruction.
Tmp(n) == [k |-> "%t", v |-> n]
Label(n) == [k |-> "label_", v |-> n]
Lambda(n) == [k |-> "@lambda_", v |-> n]
StrName(n) == [k |-> "@str_", v |-> n]
Var(c) == [k |-> "@var_", v |-> c]
Imm(numeral) == [k |-> "i32", v |-> numeral]
NoOperand == [k |-> "", v |-> 0]

\* One line of a function body, dst = op args: dst is NoOperand when the
\* line assigns nothing.
Instr(dst, op, args) == [dst |-> dst, op |-> op, args |-> args]

PushInt(x) == Instr(NoOperand, "call void @stack_push_int", <<x>>)
PushAny(x) == Instr(NoOperand, "call void @stack_push_any", <<x>>)
PopInt(t) == Instr(t, "call i32 @stack_pop_int", <<>>)
PopAny(t) == Instr(t, "call %union.FalseValue @stack_pop_any", <<>>)
PopRef(t) == Instr(t, "call %union.FalseValue* @stack_pop_ref", <<>>)
PopQuote(t) == Instr(t, "call void()* @stack_pop_quote", <<>>)
PeekAny(t, x) == Instr(t, "call %union.FalseValue @stack_peek_any", <<x>>)
Call(x) == Instr(NoOperand, "call void", <<x>>)
Br(l) == Instr(NoOperand, "br label", <<l>>)
BrCond(c, l1, l2) == Instr(NoOperand, "br i1", <<c, l1, l2>>)
LabelDef(l) == Instr(NoOperand, "label:", <<l>>)

\* What lowering one node yields: the lines it pushes and the state of
\* temporaryGenerator (t) and labelGenerator (l) after it.
Lowered(instructions, t, l) == [instructions |-> instructions, t |-> t, l |-> l]

\* In the definitions below f holds the names temporaryGenerator.next()
\* returned for the node, in the order of the calls, and g those that
\* labelGenerator.next() returned.

\* basicOp(op) with the operands of the result in the order they were popped.
basicOpTopFirst(op, f, l) ==
    Lowered(<<PopInt(Tmp(f.values[1])),
              PopInt(Tmp(f.values[2])),
              Instr(Tmp(f.values[3]), op,
                    <<Tmp(f.values[1]), Tmp(f.values[2])>>),
              PushInt(Tmp(f.values[3]))>>, f.id, l)

\* basicOp(op): second, first, result
basicOp(op, f, l) ==
    Lowered(<<PopInt(Tmp(f.values[1])),
              PopInt(Tmp(f.values[2])),
              Instr(Tmp(f.values[3]), op,
                    <<Tmp(f.values[2]), Tmp(f.values[1])>>),
              PushInt(Tmp(f.values[3]))>>, f.id, l)

\* cmp(op): second, first, result, cast
cmp(op, f, l) ==
    Lowered(<<PopInt(Tmp(f.values[1])),
              PopInt(Tmp(f.values[2])),
              Instr(Tmp(f.values[3]), op,
                    <<Tmp(f.values[2]), Tmp(f.values[1])>>),
              Instr(Tmp(f.values[4]), "sext i1 to i32", <<Tmp(f.values[3])>>),
              PushInt(Tmp(f.values[4]))>>, f.id, l)

\* case AstType.GetVar: varRef, value
LowerGetVar(f, l) ==
    Lowered(<<PopRef(Tmp(f.values[1])),
              Instr(Tmp(f.values[2]), "load %union.FalseValue",
                    <<Tmp(f.values[1])>>),
              PushAny(Tmp(f.values[2]))>>, f.id, l)

\* case AstType.SetVar: varRef, value
LowerSetVar(f, l) ==
    Lowered(<<PopRef(Tmp(f.values[1])),
              PopAny(Tmp(f.values[2])),
              Instr(NoOperand, "store %union.FalseValue",
                    <<Tmp(f.values[2]), Tmp(f.values[1])>>)>>, f.id, l)

\* case AstType.Dup: value
LowerDup(f, l) ==
    Lowered(<<PeekAny(Tmp(f.values[1]), Imm(<<0>>)),
              PushAny(Tmp(f.values[1]))>>, f.id, l)

\* case AstType.Discard
LowerDiscard(t, l) == Lowered(<<PopAny(NoOperand)>>, t, l)

\* case AstType.Swap: first, second
LowerSwap(f, l) ==
    Lowered(<<PopAny(Tmp(f.values[1])),
              PopAny(Tmp(f.values[2])),
              PushAny(Tmp(f.values[1])),
              PushAny(Tmp(f.values[2]))>>, f.id, l)

\* case AstType.Rotate: first, second, third
LowerRotate(f, l) ==
    Lowered(<<PopAny(Tmp(f.values[1])),
              PopAny(Tmp(f.values[2])),
              PopAny(Tmp(f.values[3])),
              PushAny(Tmp(f.values[2])),
              PushAny(Tmp(f.values[1])),
              PushAny(Tmp(f.values[3]))>>, f.id, l)

\* case AstType.Take: depth, value
LowerTake(f, l) ==
    Lowered(<<PopInt(Tmp(f.values[1])),
              PeekAny(Tmp(f.values[2]), Tmp(f.values[1])),
              PushAny(Tmp(f.values[2]))>>, f.id, l)

\* case AstType.Negate: value, temp
LowerNegate(f, l) ==
    Lowered(<<PopInt(Tmp(f.values[1])),
              Instr(Tmp(f.values[2]), "sub", <<Imm(<<0>>), Tmp(f.values[1])>>),
              PushInt(Tmp(f.values[2]))>>, f.id, l)

\* case AstType.BitInvert: value, temp
LowerBitInvert(f, l) ==
    Lowered(<<PopInt(Tmp(f.values[1])),
              Instr(Tmp(f.values[2]), "xor -1", <<Tmp(f.values[1])>>),
              PushInt(Tmp(f.values[2]))>>, f.id, l)

\* case AstType.Execute: value
LowerExecute(f, l) ==
    Lowered(<<PopQuote(Tmp(f.values[1])), Call(Tmp(f.values[1]))>>, f.id, l)

\* case AstType.ExecuteIf with a last br back to iftrue.
LowerExecuteIfAgain(f, g) ==
    Lowered(<<PopQuote(Tmp(f.values[1])),
              PopInt(Tmp(f.values[2])),
              Instr(Tmp(f.values[3]), "icmp ne 0", <<Tmp(f.values[2])>>),
              BrCond(Tmp(f.values[3]), Label(g.values[1]), Label(g.values[2])),
              LabelDef(Label(g.values[1])),
              Call(Tmp(f.values[1])),
              Br(Label(g.values[1])),
              LabelDef(Label(g.values[2]))>>, f.id, g.id)

\* case AstType.ExecuteIf: labels iftrue, iffalse; quote, value, cond
LowerExecuteIf(f, g) ==
    Lowered(<<PopQuote(Tmp(f.values[1])),
              PopInt(Tmp(f.values[2])),
              Instr(Tmp(f.values[3]), "icmp ne 0", <<Tmp(f.values[2])>>),
              BrCond(Tmp(f.values[3]), Label(g.values[1]), Label(g.values[2])),
              LabelDef(Label(g.values[1])),
              Call(Tmp(f.values[1])),
              Br(Label(g.values[2])),
              LabelDef(Label(g.values[2]))>>, f.id, g.id)

\* case AstType.While with the labels of the br i1 exchanged.
LowerWhileUntil(f, g) ==
    Lowered(<<PopQuote(Tmp(f.values[1])),
              PopQuote(Tmp(f.values[2])),
              Br(Label(g.values[1])),
              LabelDef(Label(g.values[1])),
              Call(Tmp(f.values[2])),
              PopInt(Tmp(f.values[3])),
              Instr(Tmp(f.values[4]), "icmp ne 0", <<Tmp(f.values[3])>>),
              BrCond(Tmp(f.values[4]), Label(g.values[3]), Label(g.values[2])),
              LabelDef(Label(g.values[2])),
              Call(Tmp(f.values[1])),
              Br(Label(g.values[1])),
              LabelDef(Label(g.values[3]))>>, f.id, g.id)

\* case AstType.While: labels loop, iftrue, iffalse; body, cond_quote,
\* value, cond
LowerWhile(f, g) ==
    Lowered(<<PopQuote(Tmp(f.values[1])),
              PopQuote(Tmp(f.values[2])),
              Br(Label(g.values[1])),
              LabelDef(Label(g.values[1])),
              Call(Tmp(f.values[2])),
              PopInt(Tmp(f.values[3])),
              Instr(Tmp(f.values[4]), "icmp ne 0", <<Tmp(f.values[3])>>),
              BrCond(Tmp(f.values[4]), Label(g.values[2]), Label(g.values[3])),
              LabelDef(Label(g.values[2])),
              Call(Tmp(f.values[1])),
              Br(Label(g.values[1])),
              LabelDef(Label(g.values[3]))>>, f.id, g.id)

\* case AstType.Getc: temp
LowerGetc(f, l) ==
    Lowered(<<Instr(Tmp(f.values[1]), "call i32 @getchar", <<>>),
              PushInt(Tmp(f.values[1]))>>, f.id, l)

\* case AstType.Putc: temp
LowerPutc(f, l) ==
    Lowered(<<PopInt(Tmp(f.values[1])),
              Instr(NoOperand, "call i32 @putchar", <<Tmp(f.values[1])>>)>>,
            f.id, l)

\* case AstType.PrintInt: temp
LowerPrintInt(f, l) ==
    Lowered(<<PopInt(Tmp(f.values[1])),
              Instr(NoOperand, "call i32 @printf @.num", <<Tmp(f.values[1])>>)>>,
            f.id, l)

\* The switch of #compile for a node that reads no field of the Compiler,
\* with temporaryGenerator at t and labelGenerator at l.
LowerNode(node, t, l) ==
    CASE node.type = "Variable" ->
            Lowered(<<Instr(NoOperand, "call void @stack_push_ref",
                            <<Var(node.value)>>)>>, t, l)
      [] node.type = "Integer" -> Lowered(<<PushInt(Imm(node.value))>>, t, l)
      [] node.type = "GetVar" -> LowerGetVar(Fresh(t, 2, <<>>), l)
      [] node.type = "SetVar" -> LowerSetVar(Fresh(t, 2, <<>>), l)
      [] node.type = "Dup" -> LowerDup(Fresh(t, 1, <<>>), l)
      [] node.type = "Discard" -> LowerDiscard(t, l)
      [] node.type = "Swap" -> LowerSwap(Fresh(t, 2, <<>>), l)
      [] node.type = "Rotate" -> LowerRotate(Fresh(t, 3, <<>>), l)
      [] node.type = "Take" -> LowerTake(Fresh(t, 2, <<>>), l)
      [] node.type = "Plus" -> basicOp("add", Fresh(t, 3, <<>>), l)
      [] node.type = "Minus" -> basicOp("sub", Fresh(t, 3, <<>>), l)
      [] node.type = "Mul" -> basicOp("mul", Fresh(t, 3, <<>>), l)
      [] node.type = "Div" -> basicOp("sdiv", Fresh(t, 3, <<>>), l)
      [] node.type = "Negate" -> LowerNegate(Fresh(t, 2, <<>>), l)
      [] node.type = "BitAnd" -> basicOp("and", Fresh(t, 3, <<>>), l)
      [] node.type = "BitOr" -> basicOp("or", Fresh(t, 3, <<>>), l)
      [] node.type = "BitInvert" -> LowerBitInvert(Fresh(t, 2, <<>>), l)
      [] node.type = "Equal" -> cmp("icmp eq", Fresh(t, 4, <<>>), l)
      [] node.type = "GreaterThan" -> cmp("icmp sgt", Fresh(t, 4, <<>>), l)
      [] node.type = "Execute" -> LowerExecute(Fresh(t, 1, <<>>), l)
      [] node.type = "ExecuteIf" ->
            LowerExecuteIf(Fresh(t, 3, <<>>), Fresh(l, 2, <<>>))
      [] node.type = "While" ->
            LowerWhile(Fresh(t, 4, <<>>), Fresh(l, 3, <<>>))
      [] node.type = "Getc" -> LowerGetc(Fresh(t, 1, <<>>), l)
      [] node.type = "Putc" -> LowerPutc(Fresh(t, 1, <<>>), l)
      [] node.type = "PrintInt" -> LowerPrintInt(Fresh(t, 1, <<>>), l)

\* The field initialisers of class Compiler: #functions, #strings (a Map,
\* kept in insertion order) and the two name generators.
CompilerFields ==
    [functions |-> <<>>,
     strings |-> <<>>,
     lambdaNameGenerator |-> NewTemporaryGenerator,
     stringNameGenerator |-> NewTemporaryGenerator]

\* One Compiler instance for the process, in the state the last call left.
SharedCompiler == compiler

\* new Compiler(): every call of compile() makes its own instance.
NewCompiler == CompilerFields

\* What #getConstString and #getFunction return, and the Compiler after
\* the call.
Named(c, name) == [compiler |-> c, name |-> name]

\* The else branch of #getConstString, g returned by
\* this.#stringNameGenerator.next().
InternString(c, str, g) ==
    Named([c EXCEPT !.stringNameGenerator = g.id,
                    !.strings = Append(@, [str |-> str,
                                           name |-> StrName(g.value)])],
          StrName(g.value))

\* this.#strings.get(str): the index of the entry of key str, 0 for none.
StringsGet(strings, str) ==
    IF \E i \in 1..Len(strings) : strings[i].str = str
    THEN CHOOSE i \in 1..Len(strings) : strings[i].str = str
    ELSE 0

\* Compiler.#getConstString(str), at the index StringsGet found.
GetConstStringAt(c, str, at) ==
    IF at # 0 THEN Named(c, c.strings[at].name)
    ELSE InternString(c, str, TemporaryGenerator_next(c.stringNameGenerator))

\* Compiler.#getConstString(str)
getConstString(c, str) == GetConstStringAt(c, str, StringsGet(c.strings, str))

\* this.#functions.find(([value]) => astEqual(nodes, value)): the index of
\* the first entry found, 0 when there is none.
FindFunction(functions, nodes) ==
    IF \E i \in 1..Len(functions) : astEqual("Quote", nodes, functions[i].nodes)
    THEN CHOOSE i \in 1..Len(functions) :
            /\ astEqual("Quote", nodes, functions[i].nodes)
            /\ \A j \in 1..(i - 1) :
                  ~ astEqual("Quote", nodes, functions[j].nodes)
    ELSE 0

\* define void ${name}() { entry: ${body} ret void }
Define(name, body) == [name |-> name, body |-> body]

\* #getFunction without the this.#functions.push.
PushFunctionNowhere(nodes, name, r) == Named(r.compiler, name)

\* this.#functions.push([nodes, name, compiled]), r the outcome of the
\* #compile(nodes) call in compiled.
PushFunction(nodes, name, r) ==
    Named([r.compiler EXCEPT
              !.functions =
                  Append(@, [nodes |-> nodes, name |-> name,
                             compiled |-> Define(name, r.instructions)])],
          name)

RECURSIVE Compiler_compileNodes(_, _, _, _, _, _)

\* The state of temporaryGenerator and of labelGenerator when #compile
\* starts.
NewGenerators == NewTemporaryGenerator

\* The else branch of #getFunction, g returned by
\* this.#lambdaNameGenerator.next().
HoistFunction(c, nodes, g) ==
    PushFunction(nodes, Lambda(g.value),
                 Compiler_compileNodes([c EXCEPT !.lambdaNameGenerator = g.id],
                                       nodes, 1, NewGenerators, NewGenerators,
                                       <<>>))

\* Compiler.#getFunction(nodes), at the index FindFunction found.
GetFunctionAt(c, nodes, at) ==
    IF at # 0 THEN Named(c, c.functions[at].name)
    ELSE HoistFunction(c, nodes, TemporaryGenerator_next(c.lambdaNameGenerator))

\* Compiler.#getFunction(nodes)
getFunction(c, nodes) == GetFunctionAt(c, nodes, FindFunction(c.functions, nodes))

\* case AstType.String and case AstType.Quote: the line that uses the name
\* r holds is pushed, and the loop goes on with the Compiler r holds.
PushNamed(r, op, nodes, i, t, l, instructions) ==
    Compiler_compileNodes(r.compiler, nodes, i + 1, t, l,
                          Append(instructions, Instr(NoOperand, op, <<r.name>>)))

\* The other cases: the lines n holds are pushed.
PushLowered(c, n, nodes, i, instructions) ==
    Compiler_compileNodes(c, nodes, i + 1, n.t, n.l,
                          instructions \o n.instructions)

\* Compiler.#compile(nodes), from node i of its loop on, with
\* temporaryGenerator at t, labelGenerator at l and the instructions pushed
\* so far.
Compiler_compileNodes(c, nodes, i, t, l, instructions) ==
    IF i > Len(nodes) THEN [compiler |-> c, instructions |-> instructions]
    ELSE IF nodes[i].type = "String"
    THEN PushNamed(getConstString(c, nodes[i].value), "call i32 @printf @.fmt",
                   nodes, i, t, l, instructions)
    ELSE IF nodes[i].type = "Quote"
    THEN PushNamed(getFunction(c, nodes[i].value),
                   "call void @stack_push_quote", nodes, i, t, l, instructions)
    ELSE PushLowered(c, LowerNode(nodes[i], t, l), nodes, i, instructions)

\* Compiler.#compile(nodes)
Compiler_hashCompile(c, nodes) ==
    Compiler_compileNodes(c, nodes, 1, NewGenerators, NewGenerators, <<>>)

\* The line emitted for one entry of #strings, e its encode_string.
StringLine(name, e) == [name |-> name, len |-> e.len, enc |-> e.enc]

\* The line emitted for one entry of #strings.
StringConstant(entry) == StringLine(entry.name, encode_string(entry.str))

\* What Compiler.compile(ast) returns after the fixed head (the string
\* constants, the hoisted functions, the body of @main), and the Compiler
\* after the call; topLevel is the outcome of this.#compile(ast).
Module(topLevel) ==
    [compiler |-> topLevel.compiler,
     output |->
         [strings |-> [i \in 1..Len(topLevel.compiler.strings) |->
                          StringConstant(topLevel.compiler.strings[i])],
          functions |-> [i \in 1..Len(topLevel.compiler.functions) |->
                            topLevel.compiler.functions[i].compiled],
          main |-> topLevel.instructions]]

\* Compiler.compile(ast)
Compiler_compile(c, ast) == Module(Compiler_hashCompile(c, ast))

\* compile(source)
compile(ast) == Compiler_compile(NewCompiler, ast)

(***************************************************************************)
(* Command line (false.ts)                                                 *)
(***************************************************************************)

\* filename.replace(/\..+$/, '.ll'): the match starts at the first dot that
\* is followed, up to the end of the name, by one or more characters that
\* are not line terminators; without a match the name is returned as it is.
replaceExtension(filename) ==
    LET starts == {i \in 1..Len(filename) :
                      /\ filename[i] = chDot
                      /\ i < Len(filename)
                      /\ \A j \in (i + 1)..Len(filename) :
                            filename[j] \notin LineTerminators}
    IN  IF starts = {} THEN filename
        ELSE SubSeq(filename, 1, (CHOOSE i \in starts :
                                     \A j \in starts : i <= j) - 1)
                \o Str(<<".", "l", "l">>)

(***************************************************************************)
(* Inputs                                                                  *)
(***************************************************************************)

\* All sequences over S of length at most n.
RECURSIVE SeqsUpTo(_, _)
SeqsUpTo(S, n) ==
    IF n = 0 THEN {<<>>}
    ELSE LET shorter == SeqsUpTo(S, n - 1)
         IN  shorter \cup {Append(q, x) : q \in {r \in shorter : Len(r) = n - 1},
                                          x \in S}

\* Tokenizer runs: every text of at most MaxSourceLen characters over
\* LexAlphabet, and every run of the digit 9 of at most MaxDigits digits.
MaxSourceLen == 4
MaxDigits == 10
LexAlphabet == {Ch(" "), Ch("{"), Ch("}"), Ch("'"), Ch("\""), Ch("9"),
                Ch("a"), Ch("[")}
LexSources ==
    SeqsUpTo(LexAlphabet, MaxSourceLen)
        \cup {[i \in 1..n |-> chNine] : n \in 1..MaxDigits}

\* Parser runs: every text of at most MaxParseLen characters over
\* ParseAlphabet.
MaxParseLen == 4
ParseAlphabet == {Ch("["), Ch("]"), Ch("GRAVE"), Ch("1"), Ch("$"), Ch("'"),
                  Ch("B")}
ParseSources == SeqsUpTo(ParseAlphabet, MaxParseLen)

Leaf(type) == AstNode(type, NoValue)
Quote(body) == AstNode("Quote", body)

\* The leaves of the programs enumerated in full: the empty string, a string
\* of a two-byte and a three-byte character, and the two nodes lowered to
\* branches.
Leaves ==
    {AstNode("String", <<>>), AstNode("String", <<233, 8364>>),
     Leaf("ExecuteIf"), Leaf("While")}

\* One node of every kind without children.
AllLeaves ==
    {AstNode("Variable", Ch("a")), AstNode("Variable", Ch("z")),
     AstNode("String", Str(<<"h", "i">>)), AstNode("String", <<55357, 56832>>),
     AstNode("String", <<55357>>), AstNode("String", <<56832>>),
     AstNode("Integer", <<0>>), AstNode("Integer", <<6, 5, 5, 3, 5>>)}
        \cup {Leaf(t) : t \in InstrTokens \ {"Variable", "String", "Integer"}}

RECURSIVE Forests(_)
RECURSIVE Trees(_)
\* The sequences of nodes over Leaves that hold n nodes in all, the nodes of
\* quotation bodies counted.
Forests(n) ==
    IF n = 0 THEN {<<>>}
    ELSE UNION {{<<t>> \o f : t \in Trees(j), f \in Forests(n - j)} :
                   j \in 1..n}
\* The nodes that hold n nodes in all, themselves counted.
Trees(n) ==
    (IF n = 1 THEN Leaves ELSE {}) \cup {Quote(f) : f \in Forests(n - 1)}

\* Compiler runs: every program of at most MaxNodes nodes over Leaves, every
\* program of two quotations of at most MaxQuoteLen leaves each, and every
\* program of one or two nodes of AllLeaves, bare or in a quotation.
MaxNodes == 4
MaxQuoteLen == 2
Programs ==
    UNION {Forests(n) : n \in 0..MaxNodes}
        \cup {<<Quote(a), Quote(b)>> : a, b \in SeqsUpTo(Leaves, MaxQuoteLen)}
        \cup {<<a>> : a \in AllLeaves}
        \cup {<<a, Quote(<<b>>)>> : a, b \in AllLeaves}

\* Runs of several compile() calls: every program of at most MaxReNodes
\* nodes over Leaves.
MaxReNodes == 2
SmallPrograms == UNION {Forests(n) : n \in 0..MaxReNodes}

\* Digit runs above 2^53, above 10^21 and above every finite Number.
LongRuns ==
    {Str(<<"9", "0", "0", "7", "1", "9", "9", "2", "5", "4", "7", "4", "0",
           "9", "9", "3">>),
     [i \in 1..17 |-> chNine], [i \in 1..22 |-> chNine],
     [i \in 1..310 |-> chNine]}

\* Command line runs: every file name of at most MaxNameLen characters over
\* NameAlphabet (a letter, the dot, the slash, the line feed), with or
\* without an output path, on a file holding one of FileTexts.
MaxNameLen == 4
NameAlphabet == {Ch("p"), Ch("."), Ch("/"), 10}
FileNames == SeqsUpTo(NameAlphabet, MaxNameLen)
FileTexts ==
    {Str(<<>>), Str(<<"[", "1", "]", "!">>), Str(<<"[">>), Str(<<"GRAVE">>),
     Str(<<"\"", "h", "i", "\"">>)} \cup LongRuns
Arguments ==
    {<<>>} \cup {<<f>> : f \in FileNames}
           \cup {<<f, Str(<<"o">>)>> : f \in FileNames}

(***************************************************************************)
(* Runtime: the functions of the head of the emitted module                *)
(***************************************************************************)

\* What a cell of the stack or a register holds: a value with the type it
\* was stored as.  A %union.FalseValue is eight bytes that hold an i32, a
\* %union.FalseValue* or a void()*.
Cell(k, v) == [k |-> k, v |-> v]

\* What memory holds that nothing was stored to, and what a load yields
\* that reads a cell as another type than it was stored as.
Undef == Cell("undef", 0)

\* The globals @stack, @stack_size and @stack_capacity.
Memory(buffer, size, capacity) ==
    [stack |-> buffer, size |-> size, capacity |-> capacity]

\* store i64 16, i64* @stack_capacity
InitialCapacity == 16

\* malloc and realloc: cells nothing was stored to.
Fresh_cells(n) == [i \in 1..n |-> Undef]

\* @stack_init()
stack_init == Memory(Fresh_cells(InitialCapacity), 0, InitialCapacity)

\* increase_capacity: of definePush: the buffer is reallocated at twice the
\* capacity, its cells kept.
increase_capacity(m) ==
    Memory(m.stack \o Fresh_cells(2 * m.capacity - Len(m.stack)),
           m.size, 2 * m.capacity)

\* load ${type} and store ${type}: what a register holds after a load from
\* a cell, and what a cell holds after a store from a register.  The type
\* %union.FalseValue moves the eight bytes whatever they hold.
Load(cell, type) == IF type = "any" \/ cell.k = type THEN cell ELSE Undef

\* set_value: of definePush: the value is stored at offset %stack_size, and
\* @stack_size incremented.
set_value(m, size, type, value) ==
    Memory([i \in 1..Len(m.stack) |->
               IF i = size + 1 THEN Load(value, type) ELSE m.stack[i]],
           size + 1, m.capacity)

\* definePush without its increase_capacity block.
definePushInPlace(m, type, value) == set_value(m, m.size, type, value)

\* definePush(name, type): the function ${name}(${type} %value).
definePush(m, type, value) ==
    set_value(IF m.size = m.capacity THEN increase_capacity(m) ELSE m,
              m.size, type, value)

\* definePop(name, type): the function ${name}(), the globals after it and
\* the value it returns.
definePop(m, type) ==
    [memory |-> Memory(m.stack, m.size - 1, m.capacity),
     value |-> Load(m.stack[m.size], type)]

\* definePeek(name, type): the value ${name}(i32 %depth) returns.
definePeek(m, type, depth) == Load(m.stack[m.size - depth], type)

(***************************************************************************)
(* Execution of the emitted instructions: i32 arithmetic                   *)
(***************************************************************************)

\* The bounds of i32.
MaxInt32 == 2147483647
MinInt32 == (-2147483647) - 1

\* add i32: the sum modulo 2^32, as a signed number.
add32(a, b) ==
    IF b >= 0 /\ a > MaxInt32 - b THEN ((a - MaxInt32) - 1) + ((b - MaxInt32) - 1)
    ELSE IF b < 0 /\ a < MinInt32 - b THEN ((a + MaxInt32) + 1) + ((b + MaxInt32) + 1)
    ELSE a + b

\* sub i32
sub32(a, b) ==
    IF b = MinInt32 THEN add32(add32(a, MaxInt32), 1) ELSE add32(a, 0 - b)

\* The halves of an i32 as unsigned 16-bit numbers, and the i32 of two
\* halves.
Low16(a) == a % 65536
High16(a) == (a \div 65536) % 65536
FromHalves(high, low) ==
    (IF high >= 32768 THEN high - 65536 ELSE high) * 65536 + low

\* The low and the high half of the product of two unsigned 16-bit numbers,
\* from the products of their bytes.
MulLow16(x, y) ==
    ((x % 256) * (y % 256)
        + 256 * (((x % 256) * (y \div 256) + (x \div 256) * (y % 256)) % 256))
    % 65536
MulHigh16(x, y) ==
    (x \div 256) * (y \div 256)
        + ((x % 256) * (y \div 256) + (x \div 256) * (y % 256)) \div 256
        + ((x % 256) * (y % 256)
              + 256 * (((x % 256) * (y \div 256) + (x \div 256) * (y % 256)) % 256))
          \div 65536

\* mul i32: the product modulo 2^32, as a signed number.
mul32(a, b) ==
    FromHalves((MulHigh16(Low16(a), Low16(b))
                   + MulLow16(High16(a), Low16(b))
                   + MulLow16(Low16(a), High16(b))) % 65536,
               MulLow16(Low16(a), Low16(b)))

\* sdiv i32 has no defined result for these operands.
sdivUndefined(a, b) == b = 0 \/ (a = MinInt32 /\ b = -1)

\* The magnitude of a number above MinInt32.
Abs(a) == IF a < 0 THEN 0 - a ELSE a

\* sdiv i32 where it is defined: the quotient rounded towards zero.
sdiv32(a, b) ==
    IF b = 1 THEN a
    ELSE IF a = MinInt32
    THEN (IF b = MinInt32 THEN 1
          ELSE IF b > 0 THEN 0 - ((MaxInt32 \div b)
                                     + (IF (MaxInt32 % b) + 1 = b THEN 1 ELSE 0))
          ELSE (MaxInt32 \div Abs(b))
                   + (IF (MaxInt32 % Abs(b)) + 1 = Abs(b) THEN 1 ELSE 0))
    ELSE IF b = MinInt32 THEN 0
    ELSE IF (a < 0) = (b < 0) THEN Abs(a) \div Abs(b)
    ELSE 0 - (Abs(a) \div Abs(b))

RECURSIVE and32(_, _)
\* and i32, on the bits of the two's complement: a \div 2 shifts them, a % 2
\* is the lowest.
and32(a, b) ==
    IF a = 0 \/ b = 0 THEN 0
    ELSE IF a = -1 THEN b
    ELSE IF b = -1 THEN a
    ELSE 2 * and32(a \div 2, b \div 2) + (a % 2) * (b % 2)

RECURSIVE or32(_, _)
\* or i32
or32(a, b) ==
    IF a = 0 THEN b
    ELSE IF b = 0 THEN a
    ELSE IF a = -1 \/ b = -1 THEN -1
    ELSE 2 * or32(a \div 2, b \div 2)
            + (IF a % 2 = 1 \/ b % 2 = 1 THEN 1 ELSE 0)

\* xor i32 -1, value
not32(a) == (-1) - a

(***************************************************************************)
(* Execution of the emitted instructions: one line                         *)
(***************************************************************************)

RECURSIVE NumeralValue(_, _, _)
\* The number a numeral of the i32 range denotes, read from its digit i on
\* after the value n of the digits before.
NumeralValue(numeral, i, n) ==
    IF i > Len(numeral) THEN n
    ELSE NumeralValue(numeral, i + 1, 10 * n + numeral[i])

\* What an operand of a line denotes, with the registers of the function.
\* A constant outside the i32 range denotes nothing.
Value(regs, x) ==
    CASE x.k = "%t" -> (IF x.v \in DOMAIN regs THEN regs[x.v] ELSE Undef)
      [] x.k = "i32" -> (IF InInt32Range(x.v)
                         THEN Cell("i32", NumeralValue(x.v, 1, 0))
                         ELSE Undef)
      [] x.k = "@lambda_" -> Cell("quote", x.v)
      [] x.k = "@var_" -> Cell("ref", x.v)
      [] x.k = "@str_" -> Cell("str", x.v)
      [] OTHER -> Undef

\* The lines that call the functions definePush, definePop and definePeek
\* define, with the ${type} of each.
PushOps ==
    "call void @stack_push_int" :> "i32" @@ "call void @stack_push_any" :> "any"
        @@ "call void @stack_push_ref" :> "ref"
        @@ "call void @stack_push_quote" :> "quote"
PopOps ==
    "call i32 @stack_pop_int" :> "i32"
        @@ "call %union.FalseValue @stack_pop_any" :> "any"
        @@ "call %union.FalseValue* @stack_pop_ref" :> "ref"
        @@ "call void()* @stack_pop_quote" :> "quote"
PeekOps == "call %union.FalseValue @stack_peek_any" :> "any"

\* The lines that compute an i32 or an i1 from registers.
BinaryOps == {"add", "sub", "mul", "sdiv", "and", "or", "icmp eq", "icmp sgt"}
UnaryOps == {"xor -1", "icmp ne 0", "sext i1 to i32"}

\* The lines that write to the standard output, which is not modelled.
OutputOps ==
    {"call i32 @putchar", "call i32 @printf @.num", "call i32 @printf @.fmt"}

\* An i1.
Bit(b) == Cell("i1", IF b THEN 1 ELSE 0)

\* The result of a line of BinaryOps on two i32.
Binary(op, a, b) ==
    CASE op = "add" -> Cell("i32", add32(a, b))
      [] op = "sub" -> Cell("i32", sub32(a, b))
      [] op = "mul" -> Cell("i32", mul32(a, b))
      [] op = "sdiv" -> Cell("i32", sdiv32(a, b))
      [] op = "and" -> Cell("i32", and32(a, b))
      [] op = "or" -> Cell("i32", or32(a, b))
      [] op = "icmp eq" -> Bit(a = b)
      [] op = "icmp sgt" -> Bit(a > b)

\* The result of a line of UnaryOps.
Unary(op, a) ==
    CASE op = "xor -1" -> Cell("i32", not32(a))
      [] op = "icmp ne 0" -> Bit(a # 0)
      [] op = "sext i1 to i32" -> Cell("i32", 0 - a)

\* The type of the operands of a line of UnaryOps.
OperandType(op) == IF op = "sext i1 to i32" THEN "i1" ELSE "i32"

\* A function of the module in execution: its lines, the index of the line
\* to execute next and its registers.
Frame(name, body) == [name |-> name, body |-> body, ip |-> 1, regs |-> <<>>]

\* The index of the line after the definition of a label, 0 when the body
\* does not define it.
After(body, label) ==
    IF \E i \in 1..Len(body) : body[i] = LabelDef(label)
    THEN 1 + CHOOSE i \in 1..Len(body) : body[i] = LabelDef(label)
    ELSE 0

\* The function a void()* points to: its index in the functions of the
\* module, 0 when it points to none.
Callee(functions, quote) ==
    IF quote.k = "quote"
          /\ \E i \in 1..Len(functions) : functions[i].name = Lambda(quote.v)
    THEN CHOOSE i \in 1..Len(functions) : functions[i].name = Lambda(quote.v)
    ELSE 0

\* The registers after a line assigned its result: a line without a
\* destination assigns none.
Assign(regs, dst, value) ==
    IF dst = NoOperand THEN regs ELSE (dst.v :> value) @@ regs

(***************************************************************************)
(* State machines                                                          *)
(***************************************************************************)

\* The outcome of a Tokenizer.next() call made at position from.
Pulled(kind, from, r) ==
    [kind |-> kind, from |-> from, tok |-> r.tok, err |-> r.err]

NoPull == Pulled("none", 0, Lexed(0, NoToken, NoError))

\* The outcome of a parse() call.
Parsed(kind, r) == [kind |-> kind, ast |-> r.statements, err |-> r.err]

NotParsed == Parsed("none", Parsing(0, NoToken, <<>>, NoError))

NoOutput == [strings |-> <<>>, functions |-> <<>>, main |-> <<>>]

TokenizerIdle ==
    /\ source = <<>> /\ pos = 0 /\ pulls = 0 /\ last = NoPull
ParserIdle == parsed = NotParsed
CompilerIdle ==
    /\ program = <<>> /\ compiler = CompilerFields /\ output = NoOutput
    /\ first = [program |-> <<>>, output |-> NoOutput] /\ phase = 0
MainIdle ==
    /\ argv = <<>> /\ pc = "idle" /\ outFile = <<>> /\ written = {}

\* A call of a function of the runtime: the function, @stack_size and
\* @stack_capacity when it was called, and the offset of the cell it
\* accessed.
Called(op, size, capacity, at) ==
    [op |-> op, size |-> size, capacity |-> capacity, at |-> at]

NoCall == Called("none", 0, 0, 0)

\* No function was entered and no character read.
NoCalls == [entered |-> <<>>, zero |-> 0, nonzero |-> 0]

\* The module is loaded: @stack = null, @stack_size = 0, @stack_capacity = 0,
\* and nothing of it has run.
RuntimeIdle ==
    /\ stack = <<>> /\ stack_size = 0 /\ stack_capacity = 0
    /\ did = NoCall /\ frames = <<>> /\ status = "loaded" /\ calls = NoCalls
    /\ variables = <<>>

tokenizerVars == <<source, pos, pulls, last>>
runtimeVars ==
    <<stack, stack_size, stack_capacity, did, frames, status, calls, variables>>
compilerVars == <<program, compiler, output, first, phase>>
mainVars == <<argv, pc, outFile, written>>

---------------------------------------------------------------------------
\* The Tokenizer, pulled by its caller: next() can be called again after it
\* returned done or threw.  At most MaxPulls calls are made.
MaxPulls == 7

InitLex ==
    /\ source \in LexSources
    /\ pos = 0 /\ pulls = 0 /\ last = NoPull
    /\ ParserIdle /\ CompilerIdle /\ MainIdle /\ RuntimeIdle

\* One call of Tokenizer.next(), whose outcome is r.
Pull(kind, r) ==
    /\ pulls < MaxPulls
    /\ kind = (IF r.err # NoError THEN "error"
               ELSE IF r.tok = NoToken THEN "done" ELSE "token")
    /\ pos' = r.pos
    /\ pulls' = pulls + 1
    /\ last' = Pulled(kind, pos, r)
    /\ UNCHANGED <<source, parsed, compilerVars, mainVars, runtimeVars>>

NextToken == Pull("token", Tokenizer_next(source, pos))
NextDone == Pull("done", Tokenizer_next(source, pos))
NextThrows == Pull("error", Tokenizer_next(source, pos))

NextLex == NextToken \/ NextDone \/ NextThrows

SpecLex == InitLex /\ [][NextLex]_vars

---------------------------------------------------------------------------
\* parse(source), called once.

InitParse ==
    /\ source \in ParseSources
    /\ pos = 0 /\ pulls = 0 /\ last = NoPull
    /\ ParserIdle /\ CompilerIdle /\ MainIdle /\ RuntimeIdle

\* One call of parse(source), whose outcome is r.
ParseCall(kind, r) ==
    /\ parsed.kind = "none"
    /\ kind = (IF r.err # NoError THEN "error" ELSE "ast")
    /\ parsed' = Parsed(kind, r)
    /\ UNCHANGED <<tokenizerVars, compilerVars, mainVars, runtimeVars>>

ParseReturns == ParseCall("ast", parse(source))
ParseThrows == ParseCall("error", parse(source))

NextParse == ParseReturns \/ ParseThrows

SpecParse == InitParse /\ [][NextParse]_vars

---------------------------------------------------------------------------
\* compile(ast), called once in a process (Spec) or several times
\* (SpecRecompile).

Init == TokenizerIdle /\ ParserIdle /\ CompilerIdle /\ MainIdle /\ RuntimeIdle

\* One call of compile(ast), whose outcome is r.
Compiled(ast, r) ==
    /\ program' = ast
    /\ compiler' = r.compiler
    /\ output' = r.output
    /\ first' = IF phase = 0 THEN [program |-> ast, output |-> r.output]
                ELSE first
    /\ phase' = phase + 1
    /\ UNCHANGED <<tokenizerVars, parsed, mainVars, runtimeVars>>

CompileCall(ast) == Compiled(ast, compile(ast))

Compile == phase = 0 /\ \E ast \in Programs : CompileCall(ast)

Next == Compile

Spec == Init /\ [][Next]_vars

\* The first call of a process, a call on any other program, and a second
\* call on the program of the first.
CompileFirst == phase = 0 /\ \E ast \in SmallPrograms : CompileCall(ast)
CompileOther == phase = 1 /\ \E ast \in SmallPrograms : CompileCall(ast)
CompileAgain == phase = 2 /\ CompileCall(first.program)

NextRecompile == CompileFirst \/ CompileOther \/ CompileAgain

SpecRecompile == Init /\ [][NextRecompile]_vars

---------------------------------------------------------------------------
\* main() of false.ts: it awaits readFile and writeFile.

InitMain ==
    /\ argv \in Arguments
    /\ source \in FileTexts
    /\ pos = 0 /\ pulls = 0 /\ last = NoPull
    /\ pc = "main" /\ outFile = <<>> /\ written = {}
    /\ ParserIdle /\ CompilerIdle /\ RuntimeIdle

unchangedByMain == <<source, pos, pulls, last, first, argv, runtimeVars>>

\* !filename: process.argv[2] is undefined or the empty string.
NoFilename == IF argv = <<>> THEN TRUE ELSE argv[1] = <<>>

\* const filename = process.argv[2]; if (!filename) { ... process.exit(1) }
MainExits ==
    /\ pc = "main"
    /\ NoFilename
    /\ pc' = "exit 1"
    /\ UNCHANGED <<unchangedByMain, parsed, program, compiler, output, phase,
                   outFile, written>>

\* ... await readFile(filename, 'utf-8')
MainReads ==
    /\ pc = "main"
    /\ ~ NoFilename
    /\ pc' = "readFile"
    /\ UNCHANGED <<unchangedByMain, parsed, program, compiler, output, phase,
                   outFile, written>>

\* readFile rejects: main() ends with the rejection.
ReadFails ==
    /\ pc = "readFile"
    /\ pc' = "rejected"
    /\ UNCHANGED <<unchangedByMain, parsed, program, compiler, output, phase,
                   outFile, written>>

\* process.argv[3] ?? filename.replace(/\..+$/, '.ll')
OutFile == IF Len(argv) > 1 THEN argv[2] ELSE replaceExtension(argv[1])

\* readFile resolved; parse(source), whose outcome is r, throws.
ParseRejects(r) ==
    /\ pc = "readFile"
    /\ r.err # NoError
    /\ outFile' = OutFile
    /\ parsed' = Parsed("error", r)
    /\ pc' = "rejected"
    /\ UNCHANGED <<unchangedByMain, program, compiler, output, phase, written>>

MainParseThrows == ParseRejects(parse(source))

\* compile(ast), whose outcome is c, returns; main() awaits
\* writeFile(outFile, IR).
WritesModule(ast, c) ==
    /\ program' = ast
    /\ compiler' = c.compiler
    /\ output' = c.output
    /\ phase' = phase + 1
    /\ pc' = "writeFile"

\* readFile resolved; parse(source), whose outcome is r, returns.
CompilesParsed(r) ==
    /\ pc = "readFile"
    /\ r.err = NoError
    /\ outFile' = OutFile
    /\ parsed' = Parsed("ast", r)
    /\ WritesModule(r.statements, compile(r.statements))
    /\ UNCHANGED <<unchangedByMain, written>>

MainCompiles == CompilesParsed(parse(source))

\* writeFile resolves: the file is written, main() returns.
MainWritten ==
    /\ pc = "writeFile"
    /\ written' = written \cup {[path |-> outFile, data |-> output]}
    /\ pc' = "done"
    /\ UNCHANGED <<unchangedByMain, parsed, program, compiler, output, phase,
                   outFile>>

\* What a file holds that was opened for writing (flag 'w': it is
\* truncated) and to which a part of the module was written before the
\* failure: some first bytes of it, possibly none.
FirstBytes(module) == [firstBytesOf |-> module]

\* writeFile rejects: either nothing was written (the file could not be
\* opened), or the file was truncated and holds a part of the module.
WriteFails ==
    /\ pc = "writeFile"
    /\ \E opened \in BOOLEAN :
          written' = IF opened
                     THEN written \cup {[path |-> outFile,
                                         data |-> FirstBytes(output)]}
                     ELSE written
    /\ pc' = "rejected"
    /\ UNCHANGED <<unchangedByMain, parsed, program, compiler, output, phase,
                   outFile>>

NextMain ==
    \/ MainExits \/ MainReads \/ ReadFails \/ MainParseThrows
    \/ MainCompiles \/ MainWritten \/ WriteFails

SpecMain == InitMain /\ [][NextMain]_vars


---------------------------------------------------------------------------
\* The stack of the runtime under any calls of its push and pop functions
\* that pop no cell of an empty stack.

\* The globals of the module.
Globals == Memory(stack, stack_size, stack_capacity)

\* The globals after a function of the runtime ran.
Stored(m) ==
    /\ stack' = m.stack
    /\ stack_size' = m.size
    /\ stack_capacity' = m.capacity

\* Stack runs: at most MaxStackSize cells are pushed, of the value
\* PushedValue.
MaxStackSize == 33
PushedValue == Cell("i32", 7)

\* call void @stack_init(), the first line of @main.
StackInit ==
    /\ status = "loaded"
    /\ Stored(stack_init)
    /\ did' = Called("init", stack_size, stack_capacity, 0)
    /\ status' = "ready"
    /\ UNCHANGED <<tokenizerVars, parsed, compilerVars, mainVars, frames, calls,
                   variables>>

\* A call of @stack_push_int.
StackPush ==
    /\ status = "ready"
    /\ stack_size < MaxStackSize
    /\ Stored(definePush(Globals, "i32", PushedValue))
    /\ did' = Called("push", stack_size, stack_capacity, stack_size)
    /\ UNCHANGED <<tokenizerVars, parsed, compilerVars, mainVars, frames,
                   status, calls, variables>>

\* A call of @stack_pop_int on a stack that holds a cell.
StackPop ==
    /\ status = "ready"
    /\ stack_size > 0
    /\ Stored(definePop(Globals, "i32").memory)
    /\ did' = Called("pop", stack_size, stack_capacity, stack_size - 1)
    /\ UNCHANGED <<tokenizerVars, parsed, compilerVars, mainVars, frames,
                   status, calls, variables>>

NextStack == StackInit \/ StackPush \/ StackPop

SpecStack == Init /\ [][NextStack]_vars

---------------------------------------------------------------------------
\* Execution of the module compile() returned, line by line, from the call
\* of @main on.  The process executes a line whenever there is one.

\* Execution runs: the characters getchar returns, and the count up to
\* which calls and characters read are counted.
InputChars == {0, 65, -1}
MaxCount == 3

\* The function in execution, its line to execute and the operand i of it.
Top == frames[Len(frames)]
AtLine == status = "running" /\ Top.ip <= Len(Top.body)
Line == Top.body[Top.ip]
Operand(i) == Value(Top.regs, Line.args[i])

\* The line is executed: the function goes on with the next line, its
\* registers as given.
Advanced(regs) ==
    frames' = [frames EXCEPT ![Len(frames)] =
                  [@ EXCEPT !.ip = Top.ip + 1, !.regs = regs]]

\* What execution leaves as it is.
unchangedByRun == <<tokenizerVars, parsed, compilerVars, mainVars>>

\* A count one higher, up to MaxCount.
Counted(n) == IF n < MaxCount THEN n + 1 ELSE n

\* How often the function @lambda_id was entered.
Entered(id) == IF id \in DOMAIN calls.entered THEN calls.entered[id] ELSE 0

\* The offset a line of PeekOps reads is in the buffer.
PeekInBuffer ==
    /\ Operand(1).k = "i32"
    /\ Operand(1).v <= stack_size - 1
    /\ Operand(1).v >= stack_size - stack_capacity

\* The line to execute has defined behaviour.
Defined ==
    CASE Line.op \in DOMAIN PopOps -> stack_size > 0
      [] Line.op \in DOMAIN PeekOps -> PeekInBuffer
      [] Line.op = "sdiv" ->
            /\ Operand(1).k = "i32" /\ Operand(2).k = "i32"
            /\ ~ sdivUndefined(Operand(1).v, Operand(2).v)
      [] Line.op = "br i1" ->
            /\ Operand(1).k = "i1"
            /\ After(Top.body, Line.args[2]) # 0
            /\ After(Top.body, Line.args[3]) # 0
      [] Line.op = "br label" -> After(Top.body, Line.args[1]) # 0
      [] Line.op = "call void" -> Callee(output.functions, Operand(1)) # 0
      [] Line.op = "load %union.FalseValue" -> Operand(1).k = "ref"
      [] Line.op = "store %union.FalseValue" -> Operand(2).k = "ref"
      [] Line.op = "label:" -> FALSE
      [] OTHER -> TRUE

\* @main is called: call void @stack_init() and its first line is next.
Start ==
    /\ status = "loaded" /\ phase = 1
    /\ Stored(stack_init)
    /\ did' = Called("init", stack_size, stack_capacity, 0)
    /\ frames' = <<Frame("@main", output.main)>>
    /\ status' = "running"
    /\ UNCHANGED <<unchangedByRun, calls, variables>>

\* A line that calls a push function.
ExecPush ==
    /\ AtLine /\ Line.op \in DOMAIN PushOps
    /\ Stored(definePush(Globals, PushOps[Line.op], Operand(1)))
    /\ Advanced(Top.regs)
    /\ UNCHANGED <<unchangedByRun, did, status, calls, variables>>

\* A line that calls a pop function, the stack holding a cell.
ExecPop ==
    /\ AtLine /\ Line.op \in DOMAIN PopOps /\ Defined
    /\ Stored(definePop(Globals, PopOps[Line.op]).memory)
    /\ Advanced(Assign(Top.regs, Line.dst,
                       definePop(Globals, PopOps[Line.op]).value))
    /\ UNCHANGED <<unchangedByRun, did, status, calls, variables>>

\* A line that calls a peek function, at a depth in the buffer.
ExecPeek ==
    /\ AtLine /\ Line.op \in DOMAIN PeekOps /\ Defined
    /\ Advanced(Assign(Top.regs, Line.dst,
                       definePeek(Globals, PeekOps[Line.op], Operand(1).v)))
    /\ UNCHANGED <<unchangedByRun, stack, stack_size, stack_capacity, did,
                   status, calls, variables>>

\* A line that computes from two registers: an operand that is no i32 makes
\* the result undefined.
ExecBinary ==
    /\ AtLine /\ Line.op \in BinaryOps /\ Defined
    /\ Advanced(Assign(Top.regs, Line.dst,
                       IF Operand(1).k = "i32" /\ Operand(2).k = "i32"
                       THEN Binary(Line.op, Operand(1).v, Operand(2).v)
                       ELSE Undef))
    /\ UNCHANGED <<unchangedByRun, stack, stack_size, stack_capacity, did,
                   status, calls, variables>>

\* A line that computes from one register.
ExecUnary ==
    /\ AtLine /\ Line.op \in UnaryOps
    /\ Advanced(Assign(Top.regs, Line.dst,
                       IF Operand(1).k = OperandType(Line.op)
                       THEN Unary(Line.op, Operand(1).v)
                       ELSE Undef))
    /\ UNCHANGED <<unchangedByRun, stack, stack_size, stack_capacity, did,
                   status, calls, variables>>

\* br label and br i1: the line after the label is next.  The outcomes of
\* the br i1 lines are counted.
ExecBr ==
    /\ AtLine /\ Line.op \in {"br label", "br i1"} /\ Defined
    /\ frames' = [frames EXCEPT ![Len(frames)].ip =
                     After(Top.body,
                           IF Line.op = "br label" THEN Line.args[1]
                           ELSE IF Operand(1).v = 1 THEN Line.args[2]
                           ELSE Line.args[3])]
    /\ calls' = IF Line.op = "br label" THEN calls
                ELSE IF Operand(1).v = 1
                THEN [calls EXCEPT !.nonzero = Counted(@)]
                ELSE [calls EXCEPT !.zero = Counted(@)]
    /\ UNCHANGED <<unchangedByRun, stack, stack_size, stack_capacity, did,
                   status, variables>>

\* call void %t(): the function the register points to is entered, the
\* caller to go on with its next line.
ExecCall ==
    /\ AtLine /\ Line.op = "call void" /\ Defined
    /\ frames' =
          Append([frames EXCEPT ![Len(frames)].ip = Top.ip + 1],
                 Frame(Lambda(Operand(1).v),
                       output.functions[Callee(output.functions,
                                               Operand(1))].body))
    /\ calls' = [calls EXCEPT !.entered =
                    (Operand(1).v :> Counted(Entered(Operand(1).v))) @@ @]
    /\ UNCHANGED <<unchangedByRun, stack, stack_size, stack_capacity, did,
                   status, variables>>

\* ret void: a hoisted function returns to its caller.
ExecRet ==
    /\ status = "running" /\ Top.ip > Len(Top.body) /\ Len(frames) > 1
    /\ frames' = SubSeq(frames, 1, Len(frames) - 1)
    /\ UNCHANGED <<unchangedByRun, stack, stack_size, stack_capacity, did,
                   status, calls, variables>>

\* call void @stack_free(), ret i32 0: @main returns, the buffer freed.
Exit ==
    /\ status = "running" /\ Top.ip > Len(Top.body) /\ Len(frames) = 1
    /\ stack' = <<>>
    /\ frames' = <<>>
    /\ status' = "returned"
    /\ UNCHANGED <<unchangedByRun, stack_size, stack_capacity, did, calls,
                   variables>>

\* call i32 @getchar(): any character, or -1 at the end of the input.
ExecGetchar ==
    /\ AtLine /\ Line.op = "call i32 @getchar"
    /\ \E c \in InputChars :
          Advanced(Assign(Top.regs, Line.dst, Cell("i32", c)))
    /\ UNCHANGED <<unchangedByRun, stack, stack_size, stack_capacity, did,
                   status, calls, variables>>

\* A line that writes to the standard output.
ExecOutput ==
    /\ AtLine /\ Line.op \in OutputOps
    /\ Advanced(Top.regs)
    /\ UNCHANGED <<unchangedByRun, stack, stack_size, stack_capacity, did,
                   status, calls, variables>>

\* load %union.FalseValue from a variable: zeroinitializer unless stored to.
ExecLoad ==
    /\ AtLine /\ Line.op = "load %union.FalseValue" /\ Defined
    /\ Advanced(Assign(Top.regs, Line.dst,
                       IF Operand(1).v \in DOMAIN variables
                       THEN variables[Operand(1).v]
                       ELSE Cell("i32", 0)))
    /\ UNCHANGED <<unchangedByRun, stack, stack_size, stack_capacity, did,
                   status, calls, variables>>

\* store %union.FalseValue to a variable.
ExecStore ==
    /\ AtLine /\ Line.op = "store %union.FalseValue" /\ Defined
    /\ variables' = (Operand(2).v :> Operand(1)) @@ variables
    /\ Advanced(Top.regs)
    /\ UNCHANGED <<unchangedByRun, stack, stack_size, stack_capacity, did,
                   status, calls>>

\* A line without defined behaviour (a pop of an empty stack, a peek
\* outside the buffer, a division without a quotient, a call or a load
\* through what is no pointer to a function or a variable): anything may
\* follow, which the state "undefined" stands for.
Trap ==
    /\ AtLine /\ ~ Defined
    /\ status' = "undefined"
    /\ UNCHANGED <<unchangedByRun, stack, stack_size, stack_capacity, did,
                   frames, calls, variables>>

\* A literal: a negative number is written as its absolute value and _.
Literal(v) ==
    IF v < 0 THEN <<AstNode("Integer", ToNumeral(0 - v)), Leaf("Negate")>>
    ELSE <<AstNode("Integer", ToNumeral(v))>>

\* The programs c b a prim: three literals and a primitive that takes its
\* operands from the stack.
Primitives ==
    {"Swap", "Rotate", "Dup", "Take", "Plus", "Minus", "Mul", "Div", "BitAnd",
     "BitOr", "Equal", "GreaterThan"}
Deeper == {4, -1}
Operands == {0, 1, 2, 3, 5, -1, MaxInt32, 0 - MaxInt32}
Effect(c, b, a, prim) ==
    Literal(c) \o Literal(b) \o Literal(a) \o <<Leaf(prim)>>
EffectPrograms ==
    {Effect(c, b, a, prim) : c \in Deeper, b \in Operands, a \in Operands,
                             prim \in Primitives}

\* The programs with one While: [cond][body]# for a condition that reads a
\* character, one that yields always the same, and n a: [a;][a;1-a:]#,
\* which counts the variable a down from n.
Conditions ==
    {<<Leaf("Getc")>>, Literal(0), Literal(1), Literal(-1)}
LoopBodies == {<<>>, Literal(2) \o <<Leaf("Discard")>>}
Loop(cond, body) == <<Quote(cond), Quote(body), Leaf("While")>>
VarA == AstNode("Variable", Ch("a"))
CountDown(n) ==
    Literal(n) \o <<VarA, Leaf("SetVar")>>
        \o Loop(<<VarA, Leaf("GetVar")>>,
                <<VarA, Leaf("GetVar")>> \o Literal(1)
                    \o <<Leaf("Minus"), VarA, Leaf("SetVar")>>)
LoopPrograms ==
    {Loop(cond, body) : cond \in Conditions, body \in LoopBodies}
        \cup {CountDown(n) : n \in 0..(MaxCount + 1)}

\* Programs of the other lines: output, Execute, ExecuteIf, a Discard on the
\* empty stack.
OtherPrograms ==
    {<<AstNode("String", Str(<<"h", "i">>))>>,
     Literal(65) \o <<Leaf("Putc")>>,
     Literal(65) \o <<Leaf("PrintInt")>>,
     Literal(5) \o <<Leaf("BitInvert")>>,
     <<Quote(Literal(1)), Leaf("Execute")>>,
     <<Leaf("Getc"), Quote(Literal(1)), Leaf("ExecuteIf")>>,
     <<Leaf("Discard")>>,
     <<Leaf("Execute")>>}

RunPrograms == EffectPrograms \cup LoopPrograms \cup OtherPrograms

\* compile(source) of one of RunPrograms, the module then run.
RunCompile == phase = 0 /\ \E ast \in RunPrograms : CompileCall(ast)

NextRun ==
    \/ RunCompile
    \/ Start
    \/ ExecPush
    \/ ExecPop
    \/ ExecPeek
    \/ ExecBinary
    \/ ExecUnary
    \/ ExecBr
    \/ ExecCall
    \/ ExecRet
    \/ Exit
    \/ ExecGetchar
    \/ ExecOutput
    \/ ExecLoad
    \/ ExecStore
    \/ Trap

\* A process that can execute a line does execute one.
SpecRun == Init /\ [][NextRun]_vars /\ WF_vars(NextRun)

(***************************************************************************)
(* Properties of compile()                                                 *)
(***************************************************************************)

\* The node lists #compile was run on, each with the lines it produced: the
\* program with the body of @main, and every entry of #functions.
Units ==
    {[nodes |-> program, body |-> output.main]}
        \cup {[nodes |-> compiler.functions[i].nodes,
               body |-> compiler.functions[i].compiled.body] :
                 i \in 1..Len(compiler.functions)}

IsQuote(node) == node.type = "Quote"
IsString(node) == node.type = "String"
PushesQuote(line) == line.op = "call void @stack_push_quote"
PrintsString(line) == line.op = "call i32 @printf @.fmt"

\* The Quote nodes the code generator met, each with the name in the line
\* emitted for it: the k-th Quote of a node list goes with the k-th
\* stack_push_quote line of its body.
QuoteSites ==
    UNION {{[body |-> SelectSeq(u.nodes, IsQuote)[k].value,
             name |-> SelectSeq(u.body, PushesQuote)[k].args[1]] :
               k \in 1..Len(SelectSeq(u.nodes, IsQuote))} : u \in Units}

\* The String nodes the code generator met, each with the name in the line
\* emitted for it.
StringSites ==
    UNION {{[text |-> SelectSeq(u.nodes, IsString)[k].value,
             name |-> SelectSeq(u.body, PrintsString)[k].args[1]] :
               k \in 1..Len(SelectSeq(u.nodes, IsString))} : u \in Units}

\* Every node list yields one line per Quote and one per String.
SitesAligned ==
    \A u \in Units :
        /\ Len(SelectSeq(u.nodes, IsQuote)) = Len(SelectSeq(u.body, PushesQuote))
        /\ Len(SelectSeq(u.nodes, IsString)) = Len(SelectSeq(u.body, PrintsString))

\* The definitions of the output that bear a name.
DefinitionsOf(name) ==
    {i \in 1..Len(output.functions) : output.functions[i].name = name}
ConstantsOf(name) ==
    {i \in 1..Len(output.strings) : output.strings[i].name = name}

\* C1: within one compilation two Quote nodes met by the code generator get
\* the same @lambda name if and only if their bodies are structurally equal,
\* and every name met has exactly one definition.  The code violates it: two
\* bodies of the same length whose first nodes agree share a name.
C1_QuoteDedup ==
    phase = 1 =>
        /\ SitesAligned
        /\ \A a, b \in QuoteSites : (a.name = b.name) <=> (a.body = b.body)
        /\ \A a \in QuoteSites : Cardinality(DefinitionsOf(a.name)) = 1

RECURSIVE Utf8Length(_, _)
\* The number of bytes of the UTF-8 form of the code units of str from i on,
\* counted by the width of each code point: a surrogate pair is one code
\* point of four bytes, a lone surrogate is replaced by U+FFFD (three bytes).
Utf8Length(str, i) ==
    IF i > Len(str) THEN 0
    ELSE IF str[i] < 128 THEN 1 + Utf8Length(str, i + 1)
    ELSE IF str[i] < 2048 THEN 2 + Utf8Length(str, i + 1)
    ELSE IF /\ str[i] \in 55296..56319
            /\ i < Len(str)
            /\ str[i + 1] \in 56320..57343
    THEN 4 + Utf8Length(str, i + 2)
    ELSE 3 + Utf8Length(str, i + 1)

\* C2: within one compilation two String nodes get the same @str name if and
\* only if their texts are identical, every text met has exactly one global
\* constant, and its array length is the UTF-8 byte length of the text plus
\* one, the encoding being that many escapes with a final \00.
C2_StringInterning ==
    phase = 1 =>
        /\ SitesAligned
        /\ \A a, b \in StringSites : (a.name = b.name) <=> (a.text = b.text)
        /\ Len(output.strings) = Cardinality({a.name : a \in StringSites})
        /\ \A a \in StringSites :
              /\ Cardinality(ConstantsOf(a.name)) = 1
              /\ \A i \in ConstantsOf(a.name) :
                    /\ output.strings[i].len = Utf8Length(a.text, 1) + 1
                    /\ Len(output.strings[i].enc) = output.strings[i].len
                    /\ output.strings[i].enc[output.strings[i].len] = <<0, 0>>

\* A compilation that met the same text twice and two other texts, one of
\* them empty and one of characters of several bytes.
C2_Witness ==
    /\ phase = 1
    /\ Len(output.strings) = 2
    /\ \E a \in StringSites : a.text = <<>>
    /\ \E a \in StringSites : Utf8Length(a.text, 1) > Len(a.text)
    /\ \E u \in Units : Len(SelectSeq(u.nodes, IsString)) >= 3

\* A compilation that met two quotations of the same length whose bodies
\* differ in their second node only.
C1_Witness ==
    /\ phase = 1
    /\ \E a, b \in QuoteSites :
          /\ Len(a.body) = 2 /\ Len(b.body) = 2
          /\ a.body[1] = b.body[1] /\ a.body[2] # b.body[2]

\* The bodies of the functions of the output: @main and every @lambda_K.
Bodies ==
    {output.main} \cup {output.functions[i].body : i \in 1..Len(output.functions)}

AssignsTemporary(line) == line.dst.k = "%t"
DefinesLabel(line) == line.op = "label:"

\* No two elements of a sequence are equal.
Distinct(seq) == \A i, j \in 1..Len(seq) : i # j => seq[i] # seq[j]

\* C3: after a compilation the @lambda names defined are pairwise distinct,
\* the @str names defined are pairwise distinct, and in each function of the
\* output the temporaries assigned and the labels defined are pairwise
\* distinct.
C3_UniqueNames ==
    phase = 1 =>
        /\ Distinct([i \in 1..Len(output.functions) |-> output.functions[i].name])
        /\ Distinct([i \in 1..Len(output.strings) |-> output.strings[i].name])
        /\ \A body \in Bodies :
              /\ Distinct([i \in 1..Len(SelectSeq(body, AssignsTemporary)) |->
                              SelectSeq(body, AssignsTemporary)[i].dst])
              /\ Distinct([i \in 1..Len(SelectSeq(body, DefinesLabel)) |->
                              SelectSeq(body, DefinesLabel)[i].args[1]])

\* A compilation of a quotation that holds a second quotation and a loop,
\* followed in @main by a conditional: the inner function is hoisted while
\* the outer one is lowered, and both @main and the outer function assign
\* %t1 and define label_1.
C3_Witness ==
    /\ phase = 1
    /\ Len(output.functions) >= 2
    /\ \E i \in 1..Len(output.functions) :
          /\ \E k \in 1..Len(output.functions[i].body) :
                PushesQuote(output.functions[i].body[k])
          /\ \E k \in 1..Len(output.functions[i].body) :
                output.functions[i].body[k] = LabelDef(Label(1))
          /\ \E k \in 1..Len(output.functions[i].body) :
                output.functions[i].body[k].dst = Tmp(1)
    /\ \E k \in 1..Len(output.main) : output.main[k] = LabelDef(Label(1))
    /\ \E k \in 1..Len(output.main) : output.main[k].dst = Tmp(1)

\* The labels a line branches to.
Targets(line) ==
    IF line.op = "br label" THEN {line.args[1]}
    ELSE IF line.op = "br i1" THEN {line.args[2], line.args[3]}
    ELSE {}

\* The lines of a body that define a label.
DefinedAt(body, label) ==
    {j \in 1..Len(body) : body[j] = LabelDef(label)}

\* C10 as stated: in every function of the output every br targets only
\* labels defined later in the same function.  The lowering of While
\* violates it: the br that closes the body of the loop targets the loop
\* label, defined before it.
C10_ForwardBranches ==
    phase = 1 =>
        \A body \in Bodies : \A i \in 1..Len(body) :
            \A label \in Targets(body[i]) :
                \E j \in DefinedAt(body, label) : j > i

\* Line i of a body is the br that closes the body of a While: an
\* unconditional br to the label defined seven lines before it, which the
\* br before that definition enters.
ClosesLoop(body, i) ==
    /\ body[i].op = "br label"
    /\ i > 8
    /\ body[i - 7] = LabelDef(body[i].args[1])
    /\ body[i - 8] = Br(body[i].args[1])
    /\ body[i - 3].op = "br i1"

\* C10 amended: in every function of the output every br targets labels
\* defined exactly once in that function, and defined later than the br,
\* but for the br that closes the body of a While, whose target is the loop
\* label of that While.
C10_BranchTargets ==
    phase = 1 =>
        \A body \in Bodies : \A i \in 1..Len(body) :
            \A label \in Targets(body[i]) :
                /\ Cardinality(DefinedAt(body, label)) = 1
                /\ \/ \A j \in DefinedAt(body, label) : j > i
                   \/ ClosesLoop(body, i)

\* A compilation of a function that holds a conditional and a loop: it has
\* the forward branches of both and the backward branch of the loop.
C10_Witness ==
    /\ phase = 1
    /\ \E body \in Bodies :
          /\ \E i \in 1..Len(body) : ClosesLoop(body, i)
          /\ Cardinality({i \in 1..Len(body) : body[i].op = "br i1"}) >= 2
          /\ Cardinality({i \in 1..Len(body) : body[i].op = "br label"}) >= 3

(***************************************************************************)
(* Properties of several compile() calls                                   *)
(***************************************************************************)

\* C8: compiling a program again, after any other program was compiled in
\* the same process, yields the output of its first compilation, made in a
\* fresh process; and in every output the names of the functions and of the
\* string constants start at 1.
C8_Deterministic ==
    phase >= 1 =>
        /\ program = first.program => output = first.output
        /\ output.functions # <<>> =>
              \E i \in 1..Len(output.functions) :
                  output.functions[i].name = Lambda(NewTemporaryGenerator)
        /\ output.strings # <<>> =>
              output.strings[1].name = StrName(NewTemporaryGenerator)

\* A program that defines a function and a string constant was compiled,
\* then another program that defines some, then the first one again.
C8_Witness ==
    /\ phase = 3
    /\ program = first.program
    /\ output.functions # <<>> /\ output.strings # <<>>
    /\ Len(compiler.functions) > 0

(***************************************************************************)
(* Properties of parse()                                                   *)
(***************************************************************************)

RECURSIVE CountQuotes(_, _)
\* The number of Quote nodes of the nodes from i on, at any depth.
CountQuotes(nodes, i) ==
    IF i > Len(nodes) THEN 0
    ELSE (IF IsQuote(nodes[i]) THEN 1 + CountQuotes(nodes[i].value, 1) ELSE 0)
            + CountQuotes(nodes, i + 1)

\* The index of the first occurrence of a character in the text from index i
\* on, past the end of the text when there is none.
IndexFrom(text, i, char) ==
    IF \E j \in i..Len(text) : text[j] = char
    THEN CHOOSE j \in i..Len(text) :
            text[j] = char /\ \A k \in i..(j - 1) : text[k] # char
    ELSE Len(text) + 1

RECURSIVE Brackets(_, _, _, _)
\* The brackets of a text read from index i on, with the number of brackets
\* open there and of those matched before: how many [ have a matching ],
\* and how many are never closed.  A bracket in a comment, in a string or
\* after the quote of a character literal is not one.
Brackets(text, i, open, matched) ==
    IF i > Len(text) THEN [matched |-> matched, unclosed |-> open]
    ELSE IF text[i] = chQuote THEN Brackets(text, i + 2, open, matched)
    ELSE IF text[i] = chOpenBrace
    THEN Brackets(text, IndexFrom(text, i, chCloseBrace) + 1, open, matched)
    ELSE IF text[i] = chDoubleQuote
    THEN Brackets(text, IndexFrom(text, i + 1, chDoubleQuote) + 1, open, matched)
    ELSE IF text[i] = Ch("[") THEN Brackets(text, i + 1, open + 1, matched)
    ELSE IF text[i] = Ch("]") /\ open > 0
    THEN Brackets(text, i + 1, open - 1, matched + 1)
    ELSE Brackets(text, i + 1, open, matched)

\* C4: for every source parse() accepts, the number of Quote nodes of the
\* AST is the number of [ of the source that have a matching ], and no [ of
\* the source is left unclosed.  The code violates it: at the end of the
\* input parseStatements returns as it does at a ], so an unclosed [ yields
\* a Quote.
C4_QuotesMatchBrackets ==
    parsed.kind = "ast" =>
        /\ CountQuotes(parsed.ast, 1) = Brackets(source, 1, 0, 0).matched
        /\ Brackets(source, 1, 0, 0).unclosed = 0

\* parse() returned on a source with a [ that no ] closes.
C4_Witness ==
    /\ parsed.kind = "ast"
    /\ Brackets(source, 1, 0, 0).unclosed > 0
    /\ Brackets(source, 1, 0, 0).matched > 0

\* The source starts with the Asm token, so the parser reaches it.
StartsWithAsm == source # <<>> /\ source[1] = Ch("GRAVE")

\* C5: when the parser reaches an Asm token and the token after it can be
\* read, parse() fails: with "Assembly is not supported" when that token is
\* an Integer, with "Syntax error: Expected a short" when it is any other
\* token or when there is none.  The code violates it: with no token after
\* Asm it reads the type of null, a TypeError.
C5_AsmErrors ==
    (/\ parsed.kind # "none"
     /\ StartsWithAsm
     /\ Tokenizer_next(source, 1).err = NoError) =>
        /\ parsed.kind = "error"
        /\ parsed.err.msg =
              IF Tokenizer_next(source, 1).tok.type = "Integer"
              THEN "Assembly is not supported"
              ELSE "Syntax error: Expected a short"

\* parse() was called on a source that ends with its Asm token.
C5_Witness ==
    /\ parsed.kind # "none"
    /\ StartsWithAsm
    /\ Len(source) = 1

(***************************************************************************)
(* Properties of the Tokenizer                                             *)
(***************************************************************************)

\* The messages of the errors the Tokenizer throws.
LexErrors ==
    {"Invalid character", "Unclosed comment", "Expected \", got",
     "Expected a character"}

\* What holds after every pull: the position is within the source; a pull
\* that returned a token advanced the position, and so did every pull
\* before it; a pull that signalled the end left the position at the end
\* of the source; one that threw threw one of the four errors of the
\* Tokenizer; and another pull is possible, which returns.
PullOutcome ==
    /\ 0 <= pos /\ pos <= Len(source)
    /\ pulls < MaxPulls => ENABLED NextLex
    /\ last.kind = "token" =>
          /\ last.from < pos /\ pulls <= pos
          /\ last.tok # NoToken /\ last.err = NoError
    /\ last.kind = "done" => (pos = Len(source) /\ last.err = NoError)
    /\ last.kind = "error" => last.err.msg \in LexErrors

\* The run of tokens ends with the first pull that signals the end or
\* throws, which is at most the pull Len(source) + 1; no token is returned
\* after it, and after the end of the input every pull signals it again.
PullsEnd ==
    /\ (last.kind \in {"none", "token"} /\ last'.kind \in {"done", "error"})
          => pulls' <= Len(source) + 1
    /\ last.kind \in {"done", "error"} => last'.kind # "token"
    /\ last.kind = "done" => (last'.kind = "done" /\ pos' = pos)

\* C6: pulling tokens ends after finitely many pulls.  Every pull returns:
\* a token after advancing the position, the end of the input, or one of
\* the four errors of the Tokenizer; the position never exceeds the length
\* of the source; and the first pull that ends the run is at most the pull
\* Len(source) + 1, no token following it.
C6_LexerProgress == []PullOutcome /\ [][PullsEnd]_vars

\* Three pulls on a source of the greatest length that holds a comment, of
\* which the last returned a token.
C6_Witness ==
    /\ pulls = 3
    /\ Len(source) = MaxSourceLen
    /\ last.kind = "token"
    /\ \E i \in 1..Len(source) : source[i] = chOpenBrace

\* C7: every Integer token the Tokenizer returns has a value in the signed
\* 32-bit range.  The code violates it: #nextNumber returns parseInt of the
\* digits, of any length.
C7_IntegerInRange ==
    (last.kind = "token" /\ last.tok.type = "Integer") =>
        InInt32Range(last.tok.value)

\* An Integer token was read from a run of ten digits.
C7_Witness ==
    /\ last.kind = "token" /\ last.tok.type = "Integer"
    /\ Len(last.tok.value) = 10

(***************************************************************************)
(* Properties of main()                                                    *)
(***************************************************************************)

\* The index of the last slash of a file name, 0 when it has none.
LastSlash(filename) ==
    IF \E i \in 1..Len(filename) : filename[i] = Ch("/")
    THEN CHOOSE i \in 1..Len(filename) :
            /\ filename[i] = Ch("/")
            /\ \A j \in (i + 1)..Len(filename) : filename[j] # Ch("/")
    ELSE 0

\* The file name with the first extension of its last component stripped
\* and .ll appended: the name itself with .ll appended when the component
\* has no dot.
StrippedName(filename) ==
    SubSeq(filename, 1,
           IndexFrom(filename, LastSlash(filename) + 1, chDot) - 1)
        \o Str(<<".", "l", "l">>)

\* C9: when the output path is omitted, the path main() writes is the input
\* path with its first extension stripped and .ll appended, and it is never
\* the input path.  The code violates it: replace() leaves a name without a
\* dot as it is, and strips from the first dot of the whole path.
C9_OutputPath ==
    (pc \in {"writeFile", "done"} /\ Len(argv) = 1) =>
        /\ outFile = StrippedName(argv[1])
        /\ outFile # argv[1]
        /\ \A w \in written : w.path = StrippedName(argv[1])

\* main() wrote its output for a file name that has no dot, no output path
\* given.
C9_Witness ==
    /\ pc = "done" /\ Len(argv) = 1
    /\ \A i \in 1..Len(argv[1]) : argv[1][i] # chDot
    /\ written # {}

(***************************************************************************)
(* Properties of the runtime stack                                         *)
(***************************************************************************)

RECURSIVE IsDoubling(_, _)
\* n is from * 2^k for some k >= 0.
IsDoubling(n, from) ==
    IF n <= from THEN n = from ELSE n % 2 = 0 /\ IsDoubling(n \div 2, from)

\* C11: from @stack_init on, under pushes and pops that pop no cell of an
\* empty stack, 0 <= size <= capacity; a push stores at the offset the size
\* was, strictly below the capacity in force after it, and adds 1 to the
\* size; the capacity changes only by doubling in a push that found the
\* size equal to it, so it is 16 * 2^k; a pop takes 1 from the size and
\* leaves the capacity; the buffer has one cell for each unit of capacity.
C11_StackBounds ==
    status = "ready" =>
        /\ 0 <= stack_size /\ stack_size <= stack_capacity
        /\ IsDoubling(stack_capacity, InitialCapacity)
        /\ Len(stack) = stack_capacity
        /\ did.op = "init" => (stack_size = 0 /\ stack_capacity = InitialCapacity)
        /\ did.op = "push" =>
              /\ stack_size = did.size + 1
              /\ did.at = did.size /\ did.at < stack_capacity
              /\ stack[did.at + 1] = PushedValue
              /\ IF did.size = did.capacity
                 THEN stack_capacity = 2 * did.capacity
                 ELSE stack_capacity = did.capacity
        /\ did.op = "pop" =>
              /\ stack_size = did.size - 1
              /\ stack_capacity = did.capacity

\* The stack was filled to its capacity twice and a cell was popped after
\* the second doubling.
C11_Witness ==
    /\ status = "ready"
    /\ stack_capacity = 4 * InitialCapacity
    /\ did.op = "pop"
    /\ stack_size = 2 * InitialCapacity

(***************************************************************************)
(* Properties of the emitted code in execution                             *)
(***************************************************************************)

\* @main executed its last line and is about to free the stack.
AtEnd == status = "running" /\ Len(frames) = 1 /\ Top.ip > Len(Top.body)

\* The cells the stack holds, the deepest first.
Contents == [i \in 1..stack_size |-> stack[i]]

\* A stack of i32 cells.
Ints(values) == [i \in 1..Len(values) |-> Cell("i32", values[i])]

\* -1 for true, 0 for false.
Flag(b) == IF b THEN -1 ELSE 0

\* The primitive has a stack effect on ... c b a: Take needs a cell a
\* positions below the new top, Div a quotient in the i32 range.
HasEffect(prim, b, a) ==
    CASE prim = "Take" -> a \in 0..1
      [] prim = "Div" -> ~ sdivUndefined(b, a)
      [] OTHER -> TRUE

\* The stack effect of the lowering table on the stack c b a, a on top.
StackEffect(prim, c, b, a) ==
    CASE prim = "Swap" -> <<c, a, b>>
      [] prim = "Rotate" -> <<b, a, c>>
      [] prim = "Dup" -> <<c, b, a, a>>
      [] prim = "Take" -> <<c, b, <<c, b>>[2 - a]>>
      [] prim = "Plus" -> <<c, add32(b, a)>>
      [] prim = "Minus" -> <<c, sub32(b, a)>>
      [] prim = "Mul" -> <<c, mul32(b, a)>>
      [] prim = "Div" -> <<c, sdiv32(b, a)>>
      [] prim = "BitAnd" -> <<c, and32(b, a)>>
      [] prim = "BitOr" -> <<c, or32(b, a)>>
      [] prim = "Equal" -> <<c, Flag(b = a)>>
      [] prim = "GreaterThan" -> <<c, Flag(b > a)>>

RECURSIVE Literals(_, _, _)
\* The numbers the literals of a program denote, read from node i on after
\* the numbers of the nodes before.
Literals(nodes, i, values) ==
    IF i > Len(nodes) THEN values
    ELSE IF nodes[i].type = "Integer"
    THEN Literals(nodes, i + 1,
                  Append(values, NumeralValue(nodes[i].value, 1, 0)))
    ELSE IF nodes[i].type = "Negate" /\ values # <<>>
    THEN Literals(nodes, i + 1,
                  [values EXCEPT ![Len(values)] = 0 - values[Len(values)]])
    ELSE Literals(nodes, i + 1, values)

\* The execution of c b a prim has defined behaviour and leaves the stack
\* of the lowering table.
EffectHolds(prim, v) ==
    (program = Effect(v[1], v[2], v[3], prim) /\ HasEffect(prim, v[2], v[3]))
       => /\ status # "undefined"
          /\ AtEnd => Contents = Ints(StackEffect(prim, v[1], v[2], v[3]))

\* C12: the lines emitted for a primitive, executed on the stack ... c b a
\* (a on top), have defined behaviour and leave the stack of the lowering
\* table: Swap c a b, Rotate b a c, Dup c b a a, Take the copy of the cell a
\* positions below the new top, the arithmetic and bitwise primitives
\* c (b op a) with the deeper cell as the left operand (5 3 - leaves 2), the
\* comparisons c and -1 or 0 for b = a and b > a; c is left as it was.
C12_StackEffects ==
    /\ (program \in EffectPrograms /\ phase = 1)
          => EffectHolds(program[Len(program)].type, Literals(program, 1, <<>>))
    /\ (program = Effect(4, 5, 3, "Minus") /\ phase = 1 /\ AtEnd)
          => Contents = Ints(<<4, 2>>)

\* 4 5 3 @ was executed: the stack holds 5 3 4.
C12_Witness ==
    /\ program = Effect(4, 5, 3, "Rotate") /\ phase = 1
    /\ AtEnd
    /\ Contents = Ints(<<5, 3, 4>>)

\* The functions of the condition and of the body of the While of one of
\* LoopPrograms: those the two stack_push_quote lines of @main name.
PushedQuote(lines, k) == IF k <= Len(lines) THEN lines[k].args[1].v ELSE 0
CondQuote == PushedQuote(SelectSeq(output.main, PushesQuote), 1)
BodyQuote == PushedQuote(SelectSeq(output.main, PushesQuote), 2)

\* One of LoopPrograms is in execution or was executed.
InLoopRun == phase = 1 /\ program \in LoopPrograms

\* What holds in every state of the execution of a While: the condition was
\* called once for every result popped and at most once more, the body once
\* for every non-zero result but the last when its call is still to come,
\* no result followed a zero, and @main returns only after a zero, with
\* both quotations and every result popped.
WhileCounts ==
    InLoopRun =>
        /\ status # "undefined"
        /\ calls.zero <= 1
        /\ Entered(BodyQuote) <= calls.nonzero
        /\ calls.nonzero <= Entered(BodyQuote) + 1
        /\ Entered(CondQuote) < MaxCount =>
              /\ calls.zero + calls.nonzero <= Entered(CondQuote)
              /\ Entered(CondQuote) <= calls.zero + calls.nonzero + 1
        /\ calls.zero = 1 => Entered(BodyQuote) = calls.nonzero
        /\ status = "returned" => calls.zero = 1 /\ stack_size = 0
        /\ \A n \in 0..MaxCount :
              (program = CountDown(n) /\ status = "returned")
                 => Entered(BodyQuote) = n /\ Entered(CondQuote) >= n

\* After the zero result neither quotation is called and no result is
\* popped.
WhileLeft == (InLoopRun /\ calls.zero = 1) => calls' = calls

\* C13: the code emitted for While pops the two quotations once before the
\* loop, then calls the condition, pops one i32 and, if it is non-zero,
\* calls the body and goes back to the call of the condition: the body runs
\* once after each non-zero result, the loop is left at the first zero
\* result without another run of the body, and @main returns if and only if
\* the condition yields 0.
C13_WhileLoop ==
    /\ []WhileCounts
    /\ [][WhileLeft]_vars
    /\ (InLoopRun /\ calls.nonzero > Entered(BodyQuote))
          ~> (Entered(BodyQuote) = calls.nonzero)
    /\ (InLoopRun /\ calls.zero = 1) ~> (status = "returned")

\* 2a:[a;][a;1-a:]# was executed: two runs of the body, three of the
\* condition, the last with the result 0.
C13_Witness ==
    /\ phase = 1 /\ program = CountDown(2)
    /\ status = "returned"
    /\ Entered(BodyQuote) = 2 /\ Entered(CondQuote) = 3
    /\ calls.zero = 1 /\ calls.nonzero = 2

(***************************************************************************)
(* Properties of the names of the emitted module                           *)
(***************************************************************************)

\* The names the lines of a body hand to stack_push_quote and to printf.
QuotesIn(body) == {body[i].args[1] : i \in {j \in 1..Len(body) : PushesQuote(body[j])}}
StringsIn(body) == {body[i].args[1] : i \in {j \in 1..Len(body) : PrintsString(body[j])}}

\* The names referenced in @main or in a hoisted function.
QuoteReferences == UNION {QuotesIn(body) : body \in Bodies}
StringReferences == UNION {StringsIn(body) : body \in Bodies}

\* C14: every @lambda name handed to stack_push_quote and every @str name
\* handed to printf, in @main or in a hoisted function, has exactly one
\* definition in the emitted module, and every @lambda and @str definition
\* emitted is referenced by some line.
C14_NamesDefinedOnce ==
    phase = 1 =>
        /\ \A name \in QuoteReferences : Cardinality(DefinitionsOf(name)) = 1
        /\ \A name \in StringReferences : Cardinality(ConstantsOf(name)) = 1
        /\ \A i \in 1..Len(output.functions) :
              output.functions[i].name \in QuoteReferences
        /\ \A i \in 1..Len(output.strings) :
              output.strings[i].name \in StringReferences

\* A compilation of a quotation in a quotation with a string in the inner
\* one: the outer quotation got its name first and its definition last.
C14_Witness ==
    /\ phase = 1
    /\ Len(output.functions) = 2
    /\ output.functions[1].name = Lambda(2)
    /\ output.functions[2].name = Lambda(1)
    /\ QuotesIn(output.main) = {Lambda(1)}
    /\ QuotesIn(output.functions[2].body) = {Lambda(2)}
    /\ StringsIn(output.functions[1].body) # {}

=============================================================================
